---- MODULE Spec2Model ----
(***************************************************************************)
(* Model of the dataLayer push interceptor (src/page-script.js, the page   *)
(* context engine).  The JavaScript heap is abstracted to a pool of array  *)
(* objects; the global binding window[observedObjectName] is a property    *)
(* that is either a plain data property, the engine's accessor (guard) or  *)
(* a non-configurable property defined by page code.                       *)
(***************************************************************************)
EXTENDS Integers, Sequences, FiniteSets, TLC

\* ------------------------------------------------------------------ bounds
NumArrays == 2      \* array objects that may exist (page-made and engine-made)
MaxSteps  == 5      \* steps of engine, page code and timers in one run
NumPorts  == 2      \* ports the viewers ever open to the relay
MaxEvents == 2      \* messages the content scripts send to the relay
MaxPushes == 3      \* push calls made in the frames of one tab
MaxLines  == 4      \* lines of a stack text given to parseStackTrace
MaxChain  == 2      \* frames of page code below an intercepted push call

\* ------------------------------------------------------------------ values
\* Entry / argument values, by how the deep copy treats them:
\*   "obj"     JSON round trip succeeds
\*   "undef"   JSON round trip throws, String(arg) succeeds
\*   "hostile" JSON round trip throws and String(arg) throws as well
\*             (e.g. a circular object with a null prototype)
Values == {"obj", "undef", "hostile"}

ArrayIds == 1..NumArrays

\* Values the binding may hold: a reference to an array object, or a
\* non-array value; "undefined" is the absent binding.
ArrayRef(a) == [t |-> "array", id |-> a]

NonArray(x) == [t |-> x, id |-> 0]

FalsyValues    == {NonArray(x) : x \in {"undefined", "null"}}
NonArrayValues == FalsyValues \cup {NonArray("object")}

\* Kinds of array objects page code can make:
\*   "plain"      an ordinary array
\*   "lockedPush" own push property is non-writable (assignment throws)
\*   "noExt"      own writable custom push, object is non-extensible
\*                (adding the marker property throws)
ArrayKinds == {"plain", "lockedPush", "noExt"}

VARIABLES
  heap,       \* array id -> [entries, push, marker, kind, owner, ref]; ref is
              \* history: the entries the same push calls leave in the
              \* collection when no interceptor is installed
  binding,    \* [kind, value]: the property window[observedObjectName]
  phase,      \* "pre" before the engine script ran, "run" after, "rerun"
              \* after it ran a second time
  pollActive, \* the setInterval of monitorLateInitialization is live
  posted,     \* messages given to window.postMessage, in order
  everBound,  \* arrays that have been readable through the binding
  initPath,   \* which path the initialization block took (history)
  steps       \* steps taken so far

\* The background service worker and what surrounds it
VARIABLES
  devtoolsConnections, \* the Map: tab id -> sequence of ports
  portState,  \* port -> "none" not opened yet, "open", "dropped" (transport
              \* gone, onDisconnect not yet dispatched), "closed"
  portTab,    \* port -> the tabId of its onConnect closure, 0 for null
  ingested,   \* messages the relay's onMessage listener has been given
  attempts,   \* history: every port.postMessage call of the fan-out,
              \* [ev, port, ok]; ok is FALSE when the call threw
  acks        \* history: the messages answered with sendResponse, in order,
              \* [ev, tab]

\* The path of an observation from the frames of one tab to a viewer
VARIABLES
  pushes,       \* history: push calls made so far in the tab; the n-th call
                \* makes observation n
  windowQueue,  \* frame -> message events of window.postMessage not yet
                \* given to the frame's content script
  runtimeQueue, \* frame -> chrome.runtime.sendMessage messages not yet given
                \* to the relay's onMessage listener
  contextValid, \* frame -> chrome.runtime.id is readable in its content script
  viewerLog     \* observations the relay posted to the viewer's port, in order

\* The devtools panel (the viewer)
VARIABLES
  backgroundPageConnection, \* the port the panel holds, 0 for null
  reconnectTimeout,         \* the timer handle the panel keeps is not null
  disconnectEvent,          \* the panel's onDisconnect listener is due to run
  pendingTimers             \* setTimeout callbacks of line 1047 not yet run

\* The stack-trace classifier
VARIABLES
  callChain,  \* frames of the code that called the wrapper, the direct
              \* caller first; <<>> when the text did not come from a push
  stackText,  \* the text given to parseStackTrace, as its lines
  stackInfo   \* what parseStackTrace returned

\* The content script of one frame, the window it listens on and the engine
\* script it injects
VARIABLES
  extensionEnabled, \* the extensionEnabled value chrome.storage.sync holds
  csPc,             \* initialize(): "start", "await" (storage.get pending),
                    \* "done"
  csContext,        \* chrome.runtime.id is readable (isExtensionContextValid)
  relayListener,    \* the 'message' listener of setupMessageRelay is added
  scriptInjected,   \* the script element of injectPageScript is appended
  engineRan,        \* page-script.js has been loaded and run
  windowEvents,     \* message events posted to the window, not yet dispatched
  emitted,          \* history: every message posted to the window, in order
  seen,             \* history: the events the relay listener was called with
  sent              \* history: the messages given to chrome.runtime.sendMessage

\* The log of the devtools panel and the page it inspects
VARIABLES
  logs,        \* the entries the panel shows, [n, url], oldest first
  currentUrl,  \* the URL the panel tracks, "" when none
  persistData, \* the persist checkbox
  pageUrl,     \* the URL of the inspected page's top frame
  received     \* history: observations given to the panel's onMessage

engineVars == <<heap, binding, phase, pollActive, posted, everBound, initPath, steps>>

relayVars == <<devtoolsConnections, portState, portTab, ingested, attempts, acks>>

pipeVars == <<pushes, windowQueue, runtimeQueue, contextValid, viewerLog>>

viewerVars == <<backgroundPageConnection, reconnectTimeout, disconnectEvent,
                pendingTimers>>

classVars == <<callChain, stackText, stackInfo>>

contentVars == <<extensionEnabled, csPc, csContext, relayListener, scriptInjected,
                 engineRan, windowEvents, emitted, seen, sent>>

logVars == <<logs, currentUrl, persistData, pageUrl, received>>

vars == <<engineVars, relayVars, pipeVars, viewerVars, classVars, contentVars,
          logVars>>

IsArray(v) == v.t = "array"

Falsy(v) == v \in FalsyValues

\* ------------------------------------------------------------- deep copies
\* String(arg) of the catch branch
StringOf(v) == IF v = "undef" THEN "str_undefined" ELSE "str_object"

\* JSON.parse(JSON.stringify(arg)) with the String(arg) fallback: the
\* exception of String(arg) is not caught
CopyThrows(v) == v = "hostile"

CopyValue(v) == IF v = "obj" THEN "obj" ELSE StringOf(v)

CopyAll(s) == [i \in 1..Len(s) |-> CopyValue(s[i])]

AnyCopyThrows(s) == \E i \in 1..Len(s) : CopyThrows(s[i])

\* ---------------------------------------------------------------- messages
PushMsg(a, args) == [type |-> "PUSH_INTERCEPTED", arr |-> a, payload |-> CopyAll(args)]

SnapshotMsg(a, entries) == [type |-> "PRE_HOOK_SNAPSHOT", arr |-> a, payload |-> CopyAll(entries)]

InitializedMsg == [type |-> "DEBUGGER_INITIALIZED", arr |-> 0, payload |-> <<>>]

\* ------------------------------------------------------------ push calling
\* A push function is a chain of layers, outermost first: "wrap" is the
\* function returned by createPushInterceptor, "native" is
\* Array.prototype.push, "custom" is a page-defined function that neither
\* appends nor delegates and returns undefined.
WrapCount(chain) == Len(SelectSeq(chain, LAMBDA f : f = "wrap"))

StripWraps(chain) == SelectSeq(chain, LAMBDA f : f # "wrap")

Undefined == [t |-> "undefined", n |-> 0]

Number(k) == [t |-> "number", n |-> k]

\* Array.prototype.push.apply(this, args)
NativePush(entries, args) ==
  [threw |-> FALSE, ret |-> Number(Len(entries) + Len(args)),
   entries |-> entries \o args, msgs |-> <<>>]

CustomPush(entries, args) ==
  [threw |-> FALSE, ret |-> Undefined, entries |-> entries, msgs |-> <<>>]

Thrown(entries) ==
  [threw |-> TRUE, ret |-> Undefined, entries |-> entries, msgs |-> <<>>]

\* The function returned by createPushInterceptor(objectName, originalPush),
\* called with args; rest is the result of originalPush.apply(this, args).
\* The payload is built (args.map) before postMessage and before the
\* original push is applied; an exception of String(arg) leaves the function.
PushInterceptor(a, entries, args, rest) ==
  IF AnyCopyThrows(args)
    THEN Thrown(entries)
    ELSE [rest EXCEPT !.msgs = <<PushMsg(a, args)>> \o rest.msgs]

RECURSIVE CallPush(_, _, _, _)
CallPush(chain, a, entries, args) ==
  IF Head(chain) = "native" THEN NativePush(entries, args)
  ELSE IF Head(chain) = "custom" THEN CustomPush(entries, args)
  ELSE PushInterceptor(a, entries, args, CallPush(Tail(chain), a, entries, args))

\* ------------------------------------------------------------ interception
\* capturePreHookEntries without the early return on an empty array
CapturePreHookEntries_NoEmptyReturn(a, arr) ==
  IF AnyCopyThrows(arr.entries) THEN [threw |-> TRUE, msgs |-> <<>>]
  ELSE [threw |-> FALSE, msgs |-> <<SnapshotMsg(a, arr.entries)>>]

\* capturePreHookEntries(objectName, array): the messages it posts and
\* whether the entries.map threw.
CapturePreHookEntries(a, arr) ==
  IF Len(arr.entries) = 0 THEN [threw |-> FALSE, msgs |-> <<>>]
  ELSE IF AnyCopyThrows(arr.entries) THEN [threw |-> TRUE, msgs |-> <<>>]
  ELSE [threw |-> FALSE, msgs |-> <<SnapshotMsg(a, arr.entries)>>]

\* interceptArray that does not set the marker of line 202
InterceptArray_NoMarker(h, a) ==
  LET cap == CapturePreHookEntries(a, h[a]) IN
  IF cap.threw THEN [heap |-> h, msgs |-> <<>>, threw |-> TRUE]
  ELSE IF h[a].kind = "lockedPush" THEN [heap |-> h, msgs |-> cap.msgs, threw |-> TRUE]
  ELSE [heap |-> [h EXCEPT ![a].push = <<"wrap">> \o @], msgs |-> cap.msgs, threw |-> FALSE]

\* interceptArray(objectName, array) on heap h: the heap after it, the
\* messages posted and whether it threw.  In strict mode the assignment to
\* a non-writable push throws, and so does adding the marker to a
\* non-extensible array.
InterceptArray(h, a) ==
  LET cap == CapturePreHookEntries(a, h[a]) IN
  IF cap.threw THEN [heap |-> h, msgs |-> <<>>, threw |-> TRUE]
  ELSE IF h[a].kind = "lockedPush" THEN [heap |-> h, msgs |-> cap.msgs, threw |-> TRUE]
  ELSE LET h1 == [h EXCEPT ![a].push = <<"wrap">> \o @] IN
       IF h[a].kind = "noExt" THEN [heap |-> h1, msgs |-> cap.msgs, threw |-> TRUE]
       ELSE [heap |-> [h1 EXCEPT ![a].marker = TRUE], msgs |-> cap.msgs, threw |-> FALSE]

NoIntercept(h) == [heap |-> h, msgs |-> <<>>, threw |-> FALSE]

\* A new array object of the given kind
NewArray(kind) ==
  [entries |-> <<>>, push |-> IF kind = "noExt" THEN <<"custom">> ELSE <<"native">>,
   marker |-> FALSE, kind |-> kind, ref |-> <<>>, owner |-> "engine"]


FreshId(h) == CHOOSE i \in ArrayIds \ DOMAIN h : \A j \in ArrayIds \ DOMAIN h : i <= j

Extend(h, i, arr) == [j \in DOMAIN h \cup {i} |-> IF j = i THEN arr ELSE h[j]]

Unmarked(h, v) == IsArray(v) /\ ~h[v.id].marker

\* ------------------------------------------------------- setupInterception
\* Lines 210-219: wrap the array found at the binding, or make an empty one
\* when the value is falsy.
InitialWrap(h, b) ==
  IF IsArray(b.value) /\ ~h[b.value.id].marker
    THEN [r |-> InterceptArray(h, b.value.id), iv |-> b.value, path |-> "wrapped"]
  ELSE IF Falsy(b.value)
    THEN LET n == FreshId(h) IN
         [r |-> InterceptArray(Extend(h, n, NewArray("plain")), n), iv |-> ArrayRef(n),
          path |-> "created"]
  ELSE [r |-> NoIntercept(h), iv |-> b.value, path |-> "untouched"]

\* setupInterception without the catch of lines 244-252: the exception of
\* Object.defineProperty leaves the function
InstallGuard_Fatal(h, b, iv) ==
  IF b.kind # "locked"
    THEN [r |-> NoIntercept(h), binding |-> [kind |-> "guard", value |-> iv], degraded |-> FALSE]
    ELSE [r |-> [heap |-> h, msgs |-> <<>>, threw |-> TRUE], binding |-> b, degraded |-> TRUE]

\* Lines 223-252: Object.defineProperty installs the accessor; on a
\* non-configurable property it throws and the catch branch wraps what the
\* binding holds.
InstallGuard(h, b, iv) ==
  IF b.kind # "locked"
    THEN [r |-> NoIntercept(h), binding |-> [kind |-> "guard", value |-> iv], degraded |-> FALSE]
  ELSE IF Unmarked(h, b.value)
    THEN [r |-> InterceptArray(h, b.value.id), binding |-> b, degraded |-> TRUE]
  ELSE [r |-> NoIntercept(h), binding |-> b, degraded |-> TRUE]

\* setupInterception(objectName): an exception of the first wrap leaves
\* the function before the accessor is installed.
SetupInterception(h, b) ==
  LET w == InitialWrap(h, b) IN
  IF w.r.threw
    THEN [heap |-> w.r.heap, binding |-> b, msgs |-> w.r.msgs, threw |-> TRUE, path |-> "aborted"]
    ELSE LET g == InstallGuard(w.r.heap, b, w.iv) IN
         [heap |-> g.r.heap, binding |-> g.binding, msgs |-> w.r.msgs \o g.r.msgs,
          threw |-> g.r.threw,
          path |-> IF g.r.threw THEN "aborted" ELSE IF g.degraded THEN "degraded" ELSE w.path]

\* The set(newValue) accessor, lines 228-240: an exception of interceptArray
\* leaves the setter before internalValue is assigned.
Setter(h, b, v) ==
  IF Unmarked(h, v)
    THEN LET r == InterceptArray(h, v.id) IN
         [heap |-> r.heap, msgs |-> r.msgs, threw |-> r.threw,
          binding |-> IF r.threw THEN b ELSE [b EXCEPT !.value = v]]
    ELSE [heap |-> h, msgs |-> <<>>, threw |-> FALSE, binding |-> [b EXCEPT !.value = v]]

\* The setInterval callback of monitorLateInitialization, lines 261-266
PollCheck(h, b) ==
  IF Unmarked(h, b.value) THEN InterceptArray(h, b.value.id) ELSE NoIntercept(h)

\* -------------------------------------------------------------- classifier
\* A stack text is the sequence of its lines (split at '\n'). A line is a
\* record: fmt tells which of the two patterns of lines 51-52 matches it
\* ("chrome": at fn (file:line:column), "firefox": fn@file:line:column,
\* "none": neither), file is the matched file as scheme and rest, and for a
\* line no pattern matches, path is the text of the line.
File(scheme, path) == [scheme |-> scheme, path |-> path]

Frame(fmt, file, line) == [fmt |-> fmt, file |-> file, line |-> line, column |-> 1]

TextLine(text) == [fmt |-> "none", file |-> File("", text), line |-> 0, column |-> 0]

ErrorHeader == TextLine("Error")

EmptyLine == TextLine("")

\* Frames of page code and of extension code, as Chrome and Firefox print them
PageFrames(fmt) ==
  {Frame(fmt, File("https", "//site/app.js"), 10),
   Frame(fmt, File("https", "//site/tag.js"), 3)}

ExtensionFrames(fmt) ==
  {Frame(fmt, File(IF fmt = "chrome" THEN "chrome-extension" ELSE "moz-extension",
                   "//other/inject.js"), 7)}

\* The frame of the wrapper itself: the anonymous function of line 126,
\* whose new Error() is on line 128 of the injected page-script.js
WrapperFrame(fmt) ==
  Frame(fmt, File(IF fmt = "chrome" THEN "chrome-extension" ELSE "moz-extension",
                  "//ext/page-script.js"), 128)

Lines ==
  {ErrorHeader, EmptyLine, WrapperFrame("chrome")}
    \cup PageFrames("chrome") \cup ExtensionFrames("chrome")
    \cup {Frame("firefox", File("https", "//site/tag.js"), 3)}
    \cup ExtensionFrames("firefox")

SeqsUpTo(S, n) == UNION {[1..k -> S] : k \in 1..n}

\* Every text of at most MaxLines lines; <<EmptyLine>> is the empty string
Texts == SeqsUpTo(Lines, MaxLines)

\* line.match(...) of lines 51-54
Match(line) == line.fmt \in {"chrome", "firefox"}

\* lines 76-78
IsExtension(fileUrl) ==
  fileUrl.scheme \in {"chrome-extension", "moz-extension", "webkit-extension"}

NoFile == File("", "")

NoCaller == [kind |-> "none", file |-> NoFile, line |-> 0, column |-> 0]

\* What parseStackTrace hands back. kind: "pending" before the call, "null"
\* for return null, "origin" for a returned record, "thrown" for an
\* exception; immediateCaller.kind: "absent" when the record has no such
\* property, "null", or "frame"
Info(kind) ==
  [kind |-> kind, file |-> NoFile, line |-> 0, column |-> 0,
   stackLineIndex |-> 0, fullStack |-> <<>>, hasExtensionFrames |-> FALSE,
   immediateCaller |-> [NoCaller EXCEPT !.kind = "absent"]]

\* The local variables of lines 38-42; an index of 0 stands for -1 and the
\* indices count lines from 1
LoopStart ==
  [immediateCallerIndex |-> 0, pageCallerIndex |-> 0, hasExtensionFrames |-> FALSE]

\* The for loop of lines 46-90, from line i on
RECURSIVE ScanFrames(_, _, _)
ScanFrames(lines, i, st) ==
  IF i > Len(lines) THEN st
  ELSE IF ~Match(lines[i]) THEN ScanFrames(lines, i + 1, st)
  ELSE LET isExtension == IsExtension(lines[i].file)
           st1 == IF st.immediateCallerIndex = 0
                    THEN [st EXCEPT !.immediateCallerIndex = i]
                    ELSE st
           st2 == IF isExtension
                    THEN [st1 EXCEPT !.hasExtensionFrames = TRUE]
                    ELSE st1
       IN IF ~isExtension /\ st.pageCallerIndex = 0
            THEN [st2 EXCEPT !.pageCallerIndex = i]
            ELSE ScanFrames(lines, i + 1, st2)

\* The index of callerInfo, line 93: pageCallerInfo || immediateCallerInfo
CallerIndex(st) ==
  IF st.pageCallerIndex # 0 THEN st.pageCallerIndex ELSE st.immediateCallerIndex

\* The record of lines 106-119
OriginRecord(stack, st) ==
  LET callerInfo == stack[CallerIndex(st)]
      immediateCallerInfo == stack[st.immediateCallerIndex]
  IN [kind |-> "origin",
      file |-> callerInfo.file,
      line |-> callerInfo.line,
      column |-> callerInfo.column,
      stackLineIndex |-> CallerIndex(st) - 1,
      fullStack |-> stack,
      hasExtensionFrames |-> st.hasExtensionFrames,
      immediateCaller |->
        IF st.immediateCallerIndex # st.pageCallerIndex
          THEN [kind |-> "frame", file |-> immediateCallerInfo.file,
                line |-> immediateCallerInfo.line,
                column |-> immediateCallerInfo.column]
          ELSE [NoCaller EXCEPT !.kind = "null"]]

\* The record of lines 96-103
UnknownRecord(stack) ==
  [Info("origin") EXCEPT !.file = File("", "unknown"), !.stackLineIndex = 2,
                         !.fullStack = stack]

\* parseStackTrace without the test of line 95: callerInfo.file of null throws
parseStackTrace_NoSentinel(stack) ==
  IF stack = <<EmptyLine>> THEN Info("null")
  ELSE LET st == ScanFrames(stack, 3, LoopStart)
       IN IF CallerIndex(st) = 0 THEN Info("thrown")
          ELSE OriginRecord(stack, st)

\* parseStackTrace that takes the first matching frame as callerInfo
parseStackTrace_FirstFrame(stack) ==
  IF stack = <<EmptyLine>> THEN Info("null")
  ELSE LET st == ScanFrames(stack, 3, LoopStart)
       IN IF CallerIndex(st) = 0 THEN UnknownRecord(stack)
          ELSE OriginRecord(stack, [st EXCEPT !.pageCallerIndex = st.immediateCallerIndex])

\* parseStackTrace with hasExtensionFrames left as initialised
parseStackTrace_NoFlag(stack) ==
  IF stack = <<EmptyLine>> THEN Info("null")
  ELSE LET st == ScanFrames(stack, 3, LoopStart)
       IN IF CallerIndex(st) = 0 THEN UnknownRecord(stack)
          ELSE OriginRecord(stack, [st EXCEPT !.hasExtensionFrames = FALSE])

\* parseStackTrace whose record for no frame does not keep the text
parseStackTrace_NoText(stack) ==
  IF stack = <<EmptyLine>> THEN Info("null")
  ELSE LET st == ScanFrames(stack, 3, LoopStart)
       IN IF CallerIndex(st) = 0 THEN UnknownRecord(<<>>)
          ELSE OriginRecord(stack, st)

\* parseStackTrace, lines 34-120
parseStackTrace(stack) ==
  IF stack = <<EmptyLine>> THEN Info("null")
  ELSE LET st == ScanFrames(stack, 3, LoopStart)
       IN IF CallerIndex(st) = 0 THEN UnknownRecord(stack)
          ELSE OriginRecord(stack, st)

\* new Error().stack inside the wrapper, line 128: Chrome prints the header
\* line "Error" and then the frames; Firefox prints the frames only, each
\* line ended by '\n', so that the last line of the text is empty
ErrorStack(fmt, chain) ==
  IF fmt = "chrome" THEN <<ErrorHeader, WrapperFrame(fmt)>> \o chain
                    ELSE <<WrapperFrame(fmt)>> \o chain \o <<EmptyLine>>

\* stack.replace(/^Error\n/, ''), line 130
CleanStack(stack) ==
  IF Len(stack) >= 2 /\ stack[1] = ErrorHeader THEN Tail(stack) ELSE stack

\* Call chains of page code in one browser: the caller of push first
Chains(fmt) == SeqsUpTo(PageFrames(fmt) \cup ExtensionFrames(fmt), MaxChain)

ClassifierStart ==
  /\ callChain = <<>>
  /\ stackText = <<>>
  /\ stackInfo = Info("pending")

\* --------------------------------------------------------- content script
\* The content script has not run: no listener, no script element, nothing
\* posted to the window
ContentIdle ==
  /\ csPc = "start"
  /\ csContext = TRUE
  /\ relayListener = FALSE
  /\ scriptInjected = FALSE
  /\ engineRan = FALSE
  /\ windowEvents = <<>>
  /\ emitted = <<>>
  /\ seen = <<>>
  /\ sent = <<>>

\* chrome.storage.sync.get({..., extensionEnabled: true}): enabled by default
ContentStart ==
  /\ extensionEnabled = TRUE
  /\ ContentIdle

\* -------------------------------------------------------------- panel log
\* The URLs the top frame of the inspected tab can show
PageUrls == {"https://shop.example/", "https://shop.example/cart"}

\* The URL of the document in the sub-frame
FrameUrl == "https://ads.example/frame"

\* let logs = []; let currentUrl = ''; let persistData = false
LogStart ==
  /\ logs = <<>>
  /\ currentUrl = ""
  /\ persistData = FALSE
  /\ pageUrl = "https://shop.example/"
  /\ received = 0

\* ------------------------------------------------------------------ viewer
\* chrome.devtools.inspectedWindow.tabId of the panel
ViewerTab == 1

\* let backgroundPageConnection = null; let reconnectTimeout = null
ViewerStart ==
  /\ backgroundPageConnection = 0
  /\ reconnectTimeout = FALSE
  /\ disconnectEvent = FALSE
  /\ pendingTimers = 0

\* ---------------------------------------------------------------- pipeline
\* The content script runs in every frame of the tab (all_frames: true):
\* the top frame and a sub-frame
Frames == {"top", "sub"}

\* No push made, nothing in flight
PipelineStart ==
  /\ pushes = 0
  /\ windowQueue = [f \in Frames |-> <<>>]
  /\ runtimeQueue = [f \in Frames |-> <<>>]
  /\ contextValid = [f \in Frames |-> TRUE]
  /\ viewerLog = <<>>

\* ------------------------------------------------------------------- relay
\* The background service worker (src/unnamed/part_003).
Ports == 1..NumPorts

\* The ids of the tabs that hold a monitored page (sender.tab.id)
Tabs == {1, 2}

\* sender.tab is absent when the sender is not a content script
NoTab == 0

EngineTypes == {"PUSH_INTERCEPTED", "PRE_HOOK_SNAPSHOT", "DEBUGGER_INITIALIZED"}

MessageTypes == EngineTypes \cup {"OTHER"}

\* const devtoolsConnections = new Map(), no port opened, nothing received
RelayStart ==
  /\ devtoolsConnections = <<>>
  /\ portState = [p \in Ports |-> "none"]
  /\ portTab = [p \in Ports |-> NoTab]
  /\ ingested = 0
  /\ attempts = <<>>
  /\ acks = <<>>

\* connections.indexOf(port): 0 stands for -1
IndexOf(list, p) ==
  IF \E i \in 1..Len(list) : list[i] = p
    THEN CHOOSE i \in 1..Len(list) : list[i] = p /\ \A j \in 1..(i - 1) : list[j] # p
    ELSE 0

\* connections.splice(index, 1)
Splice(list, i) == SubSeq(list, 1, i - 1) \o SubSeq(list, i + 1, Len(list))

\* messageListener, lines 21-31, for {type: 'INIT', tabId: t}: the Map
\* after it
OnInit(conns, p, t) ==
  [c \in DOMAIN conns \cup {t} |->
     IF c = t THEN Append(IF t \in DOMAIN conns THEN conns[t] ELSE <<>>, p) ELSE conns[c]]

\* The INIT listener that hands the latest message to the new port
InitDeliveries_Replay(ps, p, n) ==
  IF n > 0 THEN <<[ev |-> n, port |-> p, ok |-> ps[p] = "open"]>> ELSE <<>>

\* What messageListener posts to the port it registers: lines 21-31 hold no
\* postMessage and the relay keeps no message
InitDeliveries(ps, p, n) == <<>>

\* The onDisconnect listener without lines 44-46: an emptied list stays in
\* the Map
OnDisconnect_NoDelete(conns, p, t) ==
  IF t = NoTab \/ t \notin DOMAIN conns THEN conns
  ELSE LET i == IndexOf(conns[t], p) IN
       [conns EXCEPT ![t] = IF i # 0 THEN Splice(conns[t], i) ELSE conns[t]]

\* The onDisconnect listener that leaves the Map as it is
OnDisconnect_NoRemove(conns, p, t) == conns

\* The onDisconnect listener, lines 36-49, of a port whose closure holds
\* tabId t: the Map after it
OnDisconnect(conns, p, t) ==
  IF t = NoTab \/ t \notin DOMAIN conns THEN conns
  ELSE LET i    == IndexOf(conns[t], p)
           rest == IF i # 0 THEN Splice(conns[t], i) ELSE conns[t] IN
       IF Len(rest) = 0
         THEN [c \in DOMAIN conns \ {t} |-> conns[c]]
         ELSE [conns EXCEPT ![t] = rest]

\* port.postMessage(message): throws on a port that is not open
PostThrows(ps, p) == ps[p] # "open"

\* The forEach of lines 67-73 without its try/catch: the first throwing
\* postMessage ends the loop and leaves the listener
FanOut_NoCatch(conns, ps, t, n) ==
  IF t \in DOMAIN conns /\ Len(conns[t]) > 0
    THEN LET list == conns[t]
             bad  == {i \in 1..Len(list) : PostThrows(ps, list[i])}
             last == IF bad = {} THEN Len(list)
                     ELSE CHOOSE i \in bad : \A j \in bad : i <= j IN
         [attempts |-> [i \in 1..last |->
                          [ev |-> n, port |-> list[i], ok |-> ~PostThrows(ps, list[i])]],
          threw |-> bad # {}]
    ELSE [attempts |-> <<>>, threw |-> FALSE]

\* Lines 63-74: the fan-out of message number n sent from tab t.  Every
\* postMessage is in its own try/catch, so the loop visits every port of
\* the list and does not throw.
FanOut(conns, ps, t, n) ==
  IF t \in DOMAIN conns /\ Len(conns[t]) > 0
    THEN [attempts |-> [i \in 1..Len(conns[t]) |->
                          [ev |-> n, port |-> conns[t][i], ok |-> ~PostThrows(ps, conns[t][i])]],
          threw |-> FALSE]
    ELSE [attempts |-> <<>>, threw |-> FALSE]

\* sendResponse placed inside the if of line 66
Acknowledge_IfDelivered(f, n, t) ==
  IF f.threw \/ f.attempts = <<>> THEN <<>> ELSE <<[ev |-> n, tab |-> t]>>

\* Line 77: sendResponse({received: true}), reached when the fan-out
\* returned; the sender's tab is kept with it
Acknowledge(f, n, t) == IF f.threw THEN <<>> ELSE <<[ev |-> n, tab |-> t]>>

\* The guard of lines 58-62
Forwarded(t, type) == t # NoTab /\ type \in EngineTypes

\* ------------------------------------------------------------------- state
\* The entries of the array the engine script may find at the binding
PreEntries == {<<>>, <<"obj">>, <<"obj", "undef">>, <<"hostile">>}

\* The argument lists of the push calls page code makes
PushArgs == {<<"obj">>, <<"hostile", "obj">>, <<"undef", "obj">>}

\* The page as the engine script finds it: the property is absent, holds a
\* non-array value or holds an array with the entries pushed so far, and
\* it is configurable or not.
Init ==
  /\ \/ /\ heap = <<>>
        /\ \E v \in NonArrayValues, k \in {"data", "locked"} :
             binding = [kind |-> k, value |-> v]
     \/ /\ \E kind \in ArrayKinds, es \in PreEntries :
             heap = <<[NewArray(kind) EXCEPT !.owner = "page", !.entries = es, !.ref = es]>>
        /\ \E k \in {"data", "locked"} :
             binding = [kind |-> k, value |-> ArrayRef(1)]
  /\ everBound = (IF IsArray(binding.value) THEN {binding.value.id} ELSE {})
  /\ phase = "pre"
  /\ pollActive = FALSE
  /\ posted = <<>>
  /\ initPath = "none"
  /\ steps = 0
  /\ RelayStart
  /\ PipelineStart
  /\ ViewerStart
  /\ ClassifierStart
  /\ ContentStart
  /\ LogStart

\* Arrays page code holds a reference to
Known == {a \in DOMAIN heap : heap[a].owner = "page" \/ a \in everBound}

Bound(b) == IF IsArray(b.value) THEN {b.value.id} ELSE {}

\* Values page code can assign to the binding
Assignable == NonArrayValues \cup {ArrayRef(a) : a \in Known}

\* ----------------------------------------------------------------- actions
\* Every action is one step of the run
StepTaken == steps < MaxSteps /\ steps' = steps + 1

\* The initialization block, lines 272-287
Initialize ==
  /\ UNCHANGED relayVars
  /\ UNCHANGED pipeVars
  /\ UNCHANGED viewerVars
  /\ UNCHANGED classVars
  /\ UNCHANGED <<contentVars, logVars>>
  /\ StepTaken
  /\ phase = "pre"
  /\ Falsy(binding.value) => DOMAIN heap # ArrayIds
  /\ LET s == SetupInterception(heap, binding) IN
     /\ heap' = s.heap
     /\ binding' = s.binding
     /\ pollActive' = ~s.threw
     /\ posted' = IF s.threw THEN posted \o s.msgs ELSE posted \o s.msgs \o <<InitializedMsg>>
     /\ initPath' = s.path
     /\ everBound' = everBound \cup Bound(s.binding)
  /\ phase' = "run"

\* The entries of an array page code makes after the script ran.  Arrays
\* of the other kinds get their entries by push; the custom push of a
\* "noExt" array does not append, so it is made with an entry (an empty
\* one is among the arrays of Init)
CreateEntries(kind) == IF kind = "noExt" THEN {<<"obj">>} ELSE {<<>>}

\* Page code makes an array object (what page code did before the engine
\* script ran is part of Init)
PageCreate(kind, es) ==
  /\ UNCHANGED relayVars
  /\ UNCHANGED pipeVars
  /\ UNCHANGED viewerVars
  /\ UNCHANGED classVars
  /\ UNCHANGED <<contentVars, logVars>>
  /\ StepTaken
  /\ phase # "pre"
  /\ Cardinality(DOMAIN heap) < NumArrays
  /\ heap' = Extend(heap, FreshId(heap),
                  [NewArray(kind) EXCEPT !.owner = "page", !.entries = es, !.ref = es])
  /\ UNCHANGED <<binding, phase, pollActive, posted, everBound, initPath>>

\* Page code runs window[name] = v
PageAssign(v) ==
  /\ UNCHANGED relayVars
  /\ UNCHANGED pipeVars
  /\ UNCHANGED viewerVars
  /\ UNCHANGED classVars
  /\ UNCHANGED <<contentVars, logVars>>
  /\ StepTaken
  /\ phase # "pre"
  /\ v # binding.value
  /\ LET s == IF binding.kind = "guard" THEN Setter(heap, binding, v)
              ELSE [heap |-> heap, msgs |-> <<>>, threw |-> FALSE,
                    binding |-> [binding EXCEPT !.value = v]] IN
     /\ heap' = s.heap
     /\ binding' = s.binding
     /\ posted' = posted \o s.msgs
     /\ everBound' = everBound \cup Bound(s.binding)
  /\ UNCHANGED <<phase, pollActive, initPath>>

\* Page code runs Object.defineProperty(window, name, {value: v, ...}),
\* which replaces a configurable property (the accessor included)
PageRedefine(v, k) ==
  /\ UNCHANGED relayVars
  /\ UNCHANGED pipeVars
  /\ UNCHANGED viewerVars
  /\ UNCHANGED classVars
  /\ UNCHANGED <<contentVars, logVars>>
  /\ StepTaken
  /\ phase # "pre"
  /\ binding.kind # "locked"
  /\ binding' = [kind |-> k, value |-> v]
  /\ binding' # binding
  /\ everBound' = everBound \cup Bound(binding')
  /\ UNCHANGED <<heap, phase, pollActive, posted, initPath>>

\* Page code runs a.push(...args) on an array it holds
PagePush(a, args) ==
  /\ UNCHANGED relayVars
  /\ UNCHANGED pipeVars
  /\ UNCHANGED viewerVars
  /\ UNCHANGED classVars
  /\ UNCHANGED <<contentVars, logVars>>
  /\ StepTaken
  /\ phase # "pre"
  /\ LET r   == CallPush(heap[a].push, a, heap[a].entries, args)
         ref == CallPush(StripWraps(heap[a].push), a, heap[a].ref, args) IN
     /\ heap' = [heap EXCEPT ![a].entries = r.entries, ![a].ref = ref.entries]
     /\ posted' = posted \o r.msgs
  /\ UNCHANGED <<binding, phase, pollActive, everBound, initPath>>

\* Page code runs a.push = function() { /* custom */ }
PageOverwritePush(a) ==
  /\ UNCHANGED relayVars
  /\ UNCHANGED pipeVars
  /\ UNCHANGED viewerVars
  /\ UNCHANGED classVars
  /\ UNCHANGED <<contentVars, logVars>>
  /\ StepTaken
  /\ phase # "pre"
  /\ heap[a].kind # "lockedPush"
  /\ Head(heap[a].push) # "custom"
  /\ heap' = [heap EXCEPT ![a].push = <<"custom">>]
  /\ UNCHANGED <<binding, phase, pollActive, posted, everBound, initPath>>

\* The interval callback when clearInterval has no effect: it runs whether
\* or not the interval was cleared
PollTick_AfterStop ==
  /\ UNCHANGED relayVars
  /\ UNCHANGED pipeVars
  /\ UNCHANGED viewerVars
  /\ UNCHANGED classVars
  /\ UNCHANGED <<contentVars, logVars>>
  /\ StepTaken
  /\ phase # "pre"
  /\ LET r == PollCheck(heap, binding) IN
     /\ heap' = r.heap
     /\ posted' = posted \o r.msgs
  /\ UNCHANGED <<binding, phase, pollActive, everBound, initPath>>

\* One firing of the 100 ms interval
PollTick ==
  /\ UNCHANGED relayVars
  /\ UNCHANGED pipeVars
  /\ UNCHANGED viewerVars
  /\ UNCHANGED classVars
  /\ UNCHANGED <<contentVars, logVars>>
  /\ StepTaken
  /\ pollActive
  /\ LET r == PollCheck(heap, binding) IN
     /\ heap' = r.heap
     /\ posted' = posted \o r.msgs
  /\ UNCHANGED <<binding, phase, pollActive, everBound, initPath>>

\* The timeout of line 269 fires once its 10000 ms have elapsed and clears
\* the interval.  The timer is armed together with the interval and no
\* code cancels it, so it fires whatever else the page does: the step is
\* not one of the page's budget.
PollStop ==
  /\ UNCHANGED relayVars
  /\ UNCHANGED pipeVars
  /\ UNCHANGED viewerVars
  /\ UNCHANGED classVars
  /\ UNCHANGED <<contentVars, logVars>>
  /\ pollActive
  /\ pollActive' = FALSE
  /\ UNCHANGED <<heap, binding, phase, posted, everBound, initPath, steps>>

Next ==
  \/ Initialize
  \/ \E kind \in ArrayKinds : \E es \in CreateEntries(kind) : PageCreate(kind, es)
  \/ \E v \in Assignable : PageAssign(v)
  \/ \E v \in Assignable, k \in {"data", "locked"} : PageRedefine(v, k)
  \/ \E a \in Known, args \in PushArgs : PagePush(a, args)
  \/ \E a \in Known : PageOverwritePush(a)
  \/ PollTick
  \/ PollStop

Spec == Init /\ [][Next]_vars

\* The engine script runs a second time in the same page (a second
\* injection with the same data-observed-object): the same initialization
\* block, on the state the first run and the page left.  window[name] reads
\* through the accessor when there is one, and the accessor is configurable,
\* so Object.defineProperty replaces it; a second interval is armed.
Reinitialize ==
  /\ UNCHANGED relayVars
  /\ UNCHANGED pipeVars
  /\ UNCHANGED viewerVars
  /\ UNCHANGED classVars
  /\ UNCHANGED <<contentVars, logVars>>
  /\ StepTaken
  /\ phase = "run"
  /\ Falsy(binding.value) => DOMAIN heap # ArrayIds
  /\ LET s == SetupInterception(heap, binding) IN
     /\ heap' = s.heap
     /\ binding' = s.binding
     /\ pollActive' = (pollActive \/ ~s.threw)
     /\ posted' = IF s.threw THEN posted \o s.msgs ELSE posted \o s.msgs \o <<InitializedMsg>>
     /\ everBound' = everBound \cup Bound(s.binding)
  /\ phase' = "rerun"
  /\ UNCHANGED initPath

ReinitNext ==
  \/ Next
  \/ Reinitialize

ReinitSpec == Init /\ [][ReinitNext]_vars

\* The run with the browser's timers: a timeout that is armed fires
LiveSpec == Spec /\ WF_vars(PollStop)

\* ------------------------------------------------------------ relay steps
\* A viewer runs chrome.runtime.connect({name: 'devtools-panel'}): the
\* onConnect listener, lines 16-51, adds its two listeners to the port
PortConnect(p) ==
  /\ portState[p] = "none"
  /\ portState' = [portState EXCEPT ![p] = "open"]
  /\ UNCHANGED <<devtoolsConnections, portTab, ingested, attempts, acks>>
  /\ UNCHANGED engineVars
  /\ UNCHANGED pipeVars
  /\ UNCHANGED viewerVars
  /\ UNCHANGED classVars
  /\ UNCHANGED <<contentVars, logVars>>

\* The INIT message a viewer posts once, right after it connected
\* (devtools-panel.js 1017-1020), reaches messageListener
PortInit(p, t) ==
  /\ portState[p] \in {"open", "dropped"}
  /\ portTab[p] = NoTab
  /\ portTab' = [portTab EXCEPT ![p] = t]
  /\ devtoolsConnections' = OnInit(devtoolsConnections, p, t)
  /\ attempts' = attempts \o InitDeliveries(portState, p, ingested)
  /\ UNCHANGED <<portState, ingested, acks>>
  /\ UNCHANGED engineVars
  /\ UNCHANGED pipeVars
  /\ UNCHANGED viewerVars
  /\ UNCHANGED classVars
  /\ UNCHANGED <<contentVars, logVars>>

\* The transport of a port goes away (the panel is closed or calls
\* disconnect()); the relay's onDisconnect listener has not run yet
PortDrop(p) ==
  /\ portState[p] = "open"
  /\ portState' = [portState EXCEPT ![p] = "dropped"]
  /\ UNCHANGED <<devtoolsConnections, portTab, ingested, attempts, acks>>
  /\ UNCHANGED engineVars
  /\ UNCHANGED pipeVars
  /\ UNCHANGED viewerVars
  /\ UNCHANGED classVars
  /\ UNCHANGED <<contentVars, logVars>>

\* The onDisconnect listener of the port runs; the INIT the viewer posted
\* before the transport went away has been handled by then
PortDisconnect(p) ==
  /\ portState[p] = "dropped"
  /\ portTab[p] # NoTab
  /\ portState' = [portState EXCEPT ![p] = "closed"]
  /\ devtoolsConnections' = OnDisconnect(devtoolsConnections, p, portTab[p])
  /\ UNCHANGED <<portTab, ingested, attempts, acks>>
  /\ UNCHANGED engineVars
  /\ UNCHANGED pipeVars
  /\ UNCHANGED viewerVars
  /\ UNCHANGED classVars
  /\ UNCHANGED <<contentVars, logVars>>

\* The chrome.runtime.onMessage listener, lines 56-82, is given message
\* number ingested + 1, of the given type, sent from tab t
Ingest(t, type) ==
  /\ ingested < MaxEvents
  /\ ingested' = ingested + 1
  /\ LET f == FanOut(devtoolsConnections, portState, t, ingested + 1) IN
     IF Forwarded(t, type)
       THEN /\ attempts' = attempts \o f.attempts
            /\ acks' = acks \o Acknowledge(f, ingested + 1, t)
       ELSE UNCHANGED <<attempts, acks>>
  /\ UNCHANGED <<devtoolsConnections, portState, portTab>>
  /\ UNCHANGED engineVars
  /\ UNCHANGED pipeVars
  /\ UNCHANGED viewerVars
  /\ UNCHANGED classVars
  /\ UNCHANGED <<contentVars, logVars>>

\* The relay alone: the page of Init has not run the engine script
RelayInit ==
  /\ heap = <<>>
  /\ binding = [kind |-> "data", value |-> NonArray("undefined")]
  /\ everBound = {}
  /\ phase = "pre"
  /\ pollActive = FALSE
  /\ posted = <<>>
  /\ initPath = "none"
  /\ steps = 0
  /\ RelayStart
  /\ PipelineStart
  /\ ViewerStart
  /\ ClassifierStart
  /\ ContentStart
  /\ LogStart

RelayNext ==
  \/ \E p \in Ports : PortConnect(p)
  \/ \E p \in Ports, t \in Tabs : PortInit(p, t)
  \/ \E p \in Ports : PortDrop(p)
  \/ \E p \in Ports : PortDisconnect(p)
  \/ \E t \in Tabs \cup {NoTab}, type \in MessageTypes : Ingest(t, type)

RelaySpec == RelayInit /\ [][RelayNext]_vars

\* ----------------------------------------------------------- pipeline steps
\* Page code of frame f calls push on the wrapped collection of that frame:
\* the interceptor posts the observation with window.postMessage
\* (page-script.js line 153)
FramePush(f) ==
  /\ pushes < MaxPushes
  /\ pushes' = pushes + 1
  /\ windowQueue' = [windowQueue EXCEPT ![f] = Append(@, pushes + 1)]
  /\ UNCHANGED <<runtimeQueue, contextValid, viewerLog>>
  /\ UNCHANGED <<engineVars, relayVars>>
  /\ UNCHANGED viewerVars
  /\ UNCHANGED classVars
  /\ UNCHANGED <<contentVars, logVars>>

\* The message listener of frame f's content script is given the oldest
\* message event of its window: it forwards it with
\* chrome.runtime.sendMessage, or returns when the extension context is
\* invalid
ContentRelay(f) ==
  /\ windowQueue[f] # <<>>
  /\ windowQueue' = [windowQueue EXCEPT ![f] = Tail(@)]
  /\ runtimeQueue' = IF contextValid[f]
                       THEN [runtimeQueue EXCEPT ![f] = Append(@, Head(windowQueue[f]))]
                       ELSE runtimeQueue
  /\ UNCHANGED <<pushes, contextValid, viewerLog>>
  /\ UNCHANGED <<engineVars, relayVars>>
  /\ UNCHANGED viewerVars
  /\ UNCHANGED classVars
  /\ UNCHANGED <<contentVars, logVars>>

\* The extension is reloaded: chrome.runtime.id of frame f's content script
\* is gone
ContextInvalidate(f) ==
  /\ contextValid[f]
  /\ contextValid' = [contextValid EXCEPT ![f] = FALSE]
  /\ UNCHANGED <<pushes, windowQueue, runtimeQueue, viewerLog>>
  /\ UNCHANGED <<engineVars, relayVars>>
  /\ UNCHANGED viewerVars
  /\ UNCHANGED classVars
  /\ UNCHANGED <<contentVars, logVars>>

\* The relay's onMessage listener is given the oldest message frame f's
\* content script sent; sender.tab.id is the tab of every frame, and the
\* fan-out posts the message to the port of the viewer bound to the tab
RelayForward(f) ==
  /\ runtimeQueue[f] # <<>>
  /\ runtimeQueue' = [runtimeQueue EXCEPT ![f] = Tail(@)]
  /\ viewerLog' = Append(viewerLog, Head(runtimeQueue[f]))
  /\ UNCHANGED <<pushes, windowQueue, contextValid>>
  /\ UNCHANGED <<engineVars, relayVars>>
  /\ UNCHANGED viewerVars
  /\ UNCHANGED classVars
  /\ UNCHANGED <<contentVars, logVars>>

\* One tab with its frames, the relay and one bound viewer
PipelineInit ==
  /\ heap = <<>>
  /\ binding = [kind |-> "data", value |-> NonArray("undefined")]
  /\ everBound = {}
  /\ phase = "pre"
  /\ pollActive = FALSE
  /\ posted = <<>>
  /\ initPath = "none"
  /\ steps = 0
  /\ RelayStart
  /\ PipelineStart
  /\ ViewerStart
  /\ ClassifierStart
  /\ ContentStart
  /\ LogStart

PipelineNext ==
  \/ \E f \in Frames : FramePush(f)
  \/ \E f \in Frames : ContentRelay(f)
  \/ \E f \in Frames : ContextInvalidate(f)
  \/ \E f \in Frames : RelayForward(f)

PipelineSpec == PipelineInit /\ [][PipelineNext]_vars

\* ------------------------------------------------------------ viewer steps
\* setupMessageListener, devtools-panel.js 1001-1057, called while pending
\* timers are still to run: the timer of the handle is cleared,
\* chrome.runtime.connect opens port p (the relay's onConnect listener adds
\* its listeners to it) and the INIT message is posted
SetupMessageListener(p, pending) ==
  /\ reconnectTimeout' = FALSE
  /\ pendingTimers' = IF reconnectTimeout /\ pending > 0 THEN pending - 1
                                                         ELSE pending
  /\ backgroundPageConnection' = p
  /\ portState' = [portState EXCEPT ![p] = "open"]

\* The port chrome.runtime.connect returns is a new one
FreshPort(p) ==
  /\ portState[p] = "none"
  /\ \A q \in Ports : portState[q] = "none" => p <= q

\* The panel is opened: setupMessageListener runs for the first time
PanelOpen ==
  /\ backgroundPageConnection = 0
  /\ ~reconnectTimeout
  /\ ~disconnectEvent
  /\ \A q \in Ports : portState[q] = "none"
  /\ \E p \in Ports : FreshPort(p) /\ SetupMessageListener(p, pendingTimers)
  /\ UNCHANGED <<devtoolsConnections, portTab, ingested, attempts, acks>>
  /\ UNCHANGED disconnectEvent
  /\ UNCHANGED engineVars
  /\ UNCHANGED pipeVars
  /\ UNCHANGED classVars
  /\ UNCHANGED <<contentVars, logVars>>

\* The service worker is stopped: its ports are disconnected without its
\* listeners running, the Map of line 11 is gone with it, and the panel's
\* onDisconnect listener is due. The guard keeps a port for the reconnect
WorkerStop ==
  /\ backgroundPageConnection # 0
  /\ portState[backgroundPageConnection] = "open"
  /\ \E q \in Ports : portState[q] = "none"
  /\ portState' = [q \in Ports |->
                     IF portState[q] \in {"open", "dropped"} THEN "closed"
                                                             ELSE portState[q]]
  /\ devtoolsConnections' = <<>>
  /\ disconnectEvent' = TRUE
  /\ UNCHANGED <<backgroundPageConnection, reconnectTimeout, pendingTimers>>
  /\ UNCHANGED <<portTab, ingested, attempts, acks>>
  /\ UNCHANGED engineVars
  /\ UNCHANGED pipeVars
  /\ UNCHANGED classVars
  /\ UNCHANGED <<contentVars, logVars>>

\* The panel's onDisconnect listener, lines 1036-1056: the connection is
\* forgotten and the reconnect timer is armed
ViewerOnDisconnect_NoRetry ==
  /\ disconnectEvent
  /\ disconnectEvent' = FALSE
  /\ backgroundPageConnection' = 0
  /\ reconnectTimeout' = reconnectTimeout
  /\ pendingTimers' = pendingTimers
  /\ UNCHANGED relayVars
  /\ UNCHANGED engineVars
  /\ UNCHANGED pipeVars
  /\ UNCHANGED classVars
  /\ UNCHANGED <<contentVars, logVars>>

ViewerOnDisconnect ==
  /\ disconnectEvent
  /\ disconnectEvent' = FALSE
  /\ backgroundPageConnection' = 0
  /\ reconnectTimeout' = TRUE
  /\ pendingTimers' = pendingTimers + 1
  /\ UNCHANGED relayVars
  /\ UNCHANGED engineVars
  /\ UNCHANGED pipeVars
  /\ UNCHANGED classVars
  /\ UNCHANGED <<contentVars, logVars>>

\* The oldest timer of line 1047 fires after 500 ms: setupMessageListener
ReconnectTimer ==
  /\ pendingTimers > 0
  /\ \E p \in Ports :
       FreshPort(p) /\ SetupMessageListener(p, pendingTimers - 1)
  /\ UNCHANGED <<devtoolsConnections, portTab, ingested, attempts, acks>>
  /\ UNCHANGED disconnectEvent
  /\ UNCHANGED engineVars
  /\ UNCHANGED pipeVars
  /\ UNCHANGED classVars
  /\ UNCHANGED <<contentVars, logVars>>

\* The INIT of the panel's port reaches the relay
ViewerInit ==
  /\ backgroundPageConnection # 0
  /\ portState[backgroundPageConnection] \in {"open", "dropped"}
  /\ PortInit(backgroundPageConnection, ViewerTab)

\* One panel, the relay and the messages of the content scripts
ViewerInitial ==
  /\ heap = <<>>
  /\ binding = [kind |-> "data", value |-> NonArray("undefined")]
  /\ everBound = {}
  /\ phase = "pre"
  /\ pollActive = FALSE
  /\ posted = <<>>
  /\ initPath = "none"
  /\ steps = 0
  /\ RelayStart
  /\ PipelineStart
  /\ ViewerStart
  /\ ClassifierStart
  /\ ContentStart
  /\ LogStart

ViewerNext ==
  \/ PanelOpen
  \/ WorkerStop
  \/ ViewerOnDisconnect
  \/ ReconnectTimer
  \/ ViewerInit
  \/ \E t \in Tabs \cup {NoTab}, type \in MessageTypes : Ingest(t, type)

ViewerSpec == ViewerInitial /\ [][ViewerNext]_vars

\* The panel's events and timers are dispatched, and so is the INIT message
ViewerLiveSpec ==
  /\ ViewerSpec
  /\ WF_vars(ViewerOnDisconnect)
  /\ WF_vars(ReconnectTimer)
  /\ WF_vars(ViewerInit)

\* -------------------------------------------------------- classifier steps
\* parseStackTrace is called with the text of the state
Classify ==
  /\ stackInfo.kind = "pending"
  /\ stackInfo' = parseStackTrace(stackText)
  /\ UNCHANGED <<callChain, stackText>>
  /\ UNCHANGED <<engineVars, relayVars, pipeVars, viewerVars>>
  /\ UNCHANGED <<contentVars, logVars>>

\* Code with the call chain `chain` calls push on a wrapped array in a
\* browser printing stacks as fmt: lines 128-131 of the wrapper
InterceptedPush(fmt, chain) ==
  /\ stackInfo.kind = "pending"
  /\ callChain' = chain
  /\ LET stack == ErrorStack(fmt, chain)
         cleanStack == CleanStack(stack)
     IN /\ stackText' = cleanStack
        /\ stackInfo' = parseStackTrace(cleanStack)
  /\ UNCHANGED <<engineVars, relayVars, pipeVars, viewerVars>>
  /\ UNCHANGED <<contentVars, logVars>>

\* The classifier alone, on every text of the bound
ClassifyInit ==
  /\ heap = <<>>
  /\ binding = [kind |-> "data", value |-> NonArray("undefined")]
  /\ everBound = {}
  /\ phase = "pre"
  /\ pollActive = FALSE
  /\ posted = <<>>
  /\ initPath = "none"
  /\ steps = 0
  /\ RelayStart
  /\ PipelineStart
  /\ ViewerStart
  /\ ContentStart
  /\ LogStart
  /\ callChain = <<>>
  /\ stackText \in Texts
  /\ stackInfo = Info("pending")

ClassifyNext ==
  \/ Classify
  \/ \E fmt \in {"chrome", "firefox"} : \E chain \in Chains(fmt) : InterceptedPush(fmt, chain)

ClassifySpec == ClassifyInit /\ [][ClassifyNext]_vars

\* ------------------------------------------------------------------ claims
NewMsgs == SubSeq(posted', Len(posted) + 1, Len(posted'))

SnapshotsOf(msgs, a) ==
  SelectSeq(msgs, LAMBDA m : m.type = "PRE_HOOK_SNAPSHOT" /\ m.arr = a)

CountType(msgs, type) == Len(SelectSeq(msgs, LAMBDA m : m.type = type))

\* The step is the run of the initialization block
InitializeStep == phase = "pre" /\ phase' = "run"

\* What the call a.push(...args) does in the current state, and what it
\* does on the same collection without interceptor layers
Pushed(a, args) == CallPush(heap[a].push, a, heap[a].entries, args)

Unwrapped(a, args) == CallPush(StripWraps(heap[a].push), a, heap[a].ref, args)

\* C1: interception is transparent: every push returns what the same push
\* returns on the collection without interception, and every collection
\* holds exactly the entries the unwrapped collection would hold.
C1_Transparent ==
  [][/\ \A a \in Known, args \in PushArgs :
          PagePush(a, args) =>
             /\ Pushed(a, args).threw = Unwrapped(a, args).threw
             /\ Pushed(a, args).ret = Unwrapped(a, args).ret
     /\ \A a \in DOMAIN heap' : heap'[a].entries = heap'[a].ref]_vars

\* C2: when the copy of an argument throws inside a wrapped push, the call
\* does not throw: the original push has run with the arguments and its
\* result is what the caller gets.
C2_PipelineFailureContained ==
  [][\A a \in Known, args \in PushArgs :
       (PagePush(a, args) /\ WrapCount(heap[a].push) > 0 /\ AnyCopyThrows(args)) =>
          /\ ~Pushed(a, args).threw
          /\ Pushed(a, args).ret = CallPush(StripWraps(heap[a].push), a, heap[a].entries, args).ret
          /\ heap'[a].entries = CallPush(StripWraps(heap[a].push), a, heap[a].entries, args).entries]_vars

\* C3: after initialize, every push on the array the binding currently
\* holds posts a PUSH_INTERCEPTED, however many arrays were assigned before.
C3_BoundPushObserved ==
  [][\A a \in Known, args \in PushArgs :
       (PagePush(a, args) /\ phase = "run" /\ binding.value = ArrayRef(a)) =>
          CountType(NewMsgs, "PUSH_INTERCEPTED") >= 1]_vars

\* C4: a step that wraps a collection holding N entries posts exactly one
\* PRE_HOOK_SNAPSHOT of it with the copies of those N entries in order when
\* N > 0 and none when N = 0, and no step posts a snapshot of a collection
\* that already carries the marker.
C4_SnapshotPerWrap ==
  [][\A a \in DOMAIN heap' :
       LET before == IF a \in DOMAIN heap THEN heap[a] ELSE NewArray("plain")
           snaps  == SnapshotsOf(NewMsgs, a) IN
       /\ WrapCount(heap'[a].push) > WrapCount(before.push) =>
            /\ Len(snaps) = (IF Len(before.entries) > 0 THEN 1 ELSE 0)
            /\ \A i \in 1..Len(snaps) :
                 /\ Len(snaps[i].payload) = Len(before.entries)
                 /\ \A j \in 1..Len(before.entries) :
                      snaps[i].payload[j] = CopyValue(before.entries[j])
       /\ before.marker => snaps = <<>>]_vars

\* C4 witness: a marked collection whose snapshot of two entries was posted,
\* and a marked collection wrapped when it was empty, without snapshot.
C4_Witness ==
  /\ \E i \in 1..Len(posted) :
       /\ posted[i].type = "PRE_HOOK_SNAPSHOT"
       /\ Len(posted[i].payload) = 2
       /\ heap[posted[i].arr].marker
  /\ \E a \in DOMAIN heap :
       /\ heap[a].marker
       /\ SnapshotsOf(posted, a) = <<>>

\* C5: once page code has overwritten the push of a wrapped collection, the
\* engine re-applies interception: after a poll tick the marked collection
\* the binding holds has an interceptor on its push again.
C5_OverwriteRewrapped ==
  [][(PollTick /\ IsArray(binding.value) /\ heap[binding.value.id].marker) =>
       WrapCount(heap'[binding.value.id].push) >= 1]_vars

\* C6: after a reassignment, a push on the newly bound array posts exactly
\* one PUSH_INTERCEPTED and a push on the old array posts none.
C6_NewObservedOldSilent ==
  [][\A a \in Known, args \in PushArgs :
       (PagePush(a, args) /\ phase = "run" /\ IsArray(binding.value)) =>
          /\ (binding.value = ArrayRef(a) /\ everBound # {a}) =>
                CountType(NewMsgs, "PUSH_INTERCEPTED") = 1
          /\ (binding.value # ArrayRef(a) /\ a \in everBound) =>
                CountType(NewMsgs, "PUSH_INTERCEPTED") = 0]_vars

\* C7: no collection is wrapped twice: no push carries two interceptor
\* layers and no push call posts two PUSH_INTERCEPTED.
C7_NeverWrappedTwice ==
  [][/\ \A a \in DOMAIN heap' : WrapCount(heap'[a].push) <= 1
     /\ CountType(NewMsgs, "PUSH_INTERCEPTED") <= 1]_vars

\* C8: once initialize has run, exactly one DEBUGGER_INITIALIZED has been
\* posted, whichever path it took; when it created the empty collection the
\* signal is its only message.
C8_OneInitialized ==
  phase = "run" =>
     /\ CountType(posted, "DEBUGGER_INITIALIZED") = 1
     /\ initPath = "created" => posted[1] = InitializedMsg

\* C9: the steps of initialize do not abort one another: whatever happens
\* to the wrap of the initially bound collection, initialize installs the
\* accessor where the property is configurable, starts the poll and
\* posts the Initialized signal last.
C9_StepsIndependent ==
  [][InitializeStep =>
       /\ binding.kind # "locked" => binding'.kind = "guard"
       /\ pollActive'
       /\ Len(posted') > 0 /\ posted'[Len(posted')] = InitializedMsg]_vars

\* C10: a value that exists at initialize and is not an array, falsy or
\* not, is still the value of the binding after initialize.
C10_NonArrayUntouched ==
  [][(InitializeStep /\ ~IsArray(binding.value) /\ binding.value # NonArray("undefined")) =>
       binding'.value = binding.value]_vars

\* C11: with the accessor installed, every assignment window[name] = v takes:
\* the binding then reads v; an array v carries the marker and an
\* interceptor on its push; a non-array v is stored and nothing is wrapped
\* or posted.
C11_AssignmentTakes ==
  [][\A v \in Assignable :
       (PageAssign(v) /\ binding.kind = "guard") =>
          /\ binding'.value = v
          /\ IsArray(v) => (heap'[v.id].marker /\ WrapCount(heap'[v.id].push) >= 1)
          /\ ~IsArray(v) => (heap' = heap /\ posted' = posted)]_vars

\* C12: when Object.defineProperty on the bound name fails (the initial
\* wrap has returned and the property is not configurable), initialize does
\* not abort: the array the binding holds carries the marker and its pushes
\* pass through one interceptor, the poll is started and the Initialized
\* signal is posted last; the property itself is left as it was, so only
\* the accessor is missing.
C12_DegradedContinues ==
  [][(InitializeStep /\ binding.kind = "locked" /\ ~InitialWrap(heap, binding).r.threw) =>
       /\ initPath' = "degraded"
       /\ binding' = binding
       /\ IsArray(binding.value) =>
             /\ heap'[binding.value.id].marker
             /\ heap'[binding.value.id].push = <<"wrap">> \o heap[binding.value.id].push
       /\ pollActive'
       /\ Len(posted') > 0 /\ posted'[Len(posted')] = InitializedMsg]_vars

\* C12 witness: initialize went through the fallback, the array at the
\* non-configurable binding is marked, the poll runs, and a push on that
\* array has been posted after the Initialized signal.
C12_Witness ==
  /\ initPath = "degraded"
  /\ binding.kind = "locked"
  /\ IsArray(binding.value)
  /\ heap[binding.value.id].marker
  /\ pollActive
  /\ \E i, j \in 1..Len(posted) :
       /\ i < j
       /\ posted[i] = InitializedMsg
       /\ posted[j].type = "PUSH_INTERCEPTED"
       /\ posted[j].arr = binding.value.id

\* C13: while the poll is active, when the accessor initialize installed
\* was replaced by an outright redefinition of the property and the
\* property holds an unmarked array, the next poll tick wraps that array:
\* after the tick it carries the marker and its push is the interceptor.
C13_PollWrapsRedefined ==
  [][(PollTick /\ initPath \in {"wrapped", "created", "untouched"}
        /\ binding.kind # "guard" /\ Unmarked(heap, binding.value)) =>
       /\ heap'[binding.value.id].marker
       /\ heap'[binding.value.id].push = <<"wrap">> \o heap[binding.value.id].push]_vars

\* C14: the poll always stops: from some point on no interval is live; it
\* is never started again after initialize; and once it has stopped, an
\* array gains an interceptor only through the setter of the accessor, so
\* an unmarked array bound after that point is not wrapped by a poll tick.
C14_PollStops ==
  /\ <>[](~pollActive)
  /\ [][(phase = "run" /\ ~pollActive) =>
          /\ ~pollActive'
          /\ (\E a \in DOMAIN heap : WrapCount(heap'[a].push) > WrapCount(heap[a].push)) =>
                (binding.kind = "guard" /\ \E v \in Assignable : PageAssign(v))]_vars

\* C14 witness: initialize started the poll, the poll has stopped, and the
\* property, redefined after that, holds an array that is not wrapped.
C14_Witness ==
  /\ phase = "run"
  /\ initPath = "created"
  /\ ~pollActive
  /\ binding.kind # "guard"
  /\ IsArray(binding.value)
  /\ ~heap[binding.value.id].marker
  /\ WrapCount(heap[binding.value.id].push) = 0
  /\ heap[binding.value.id].kind = "plain"

\* C15: the poll is cancelled early: a poll tick that finds the bound
\* collection wrapped (marked, interceptor on its push) is the last one;
\* the interval is not live after it.
C15_PollCancelledEarly ==
  [][(PollTick /\ IsArray(binding.value) /\ heap[binding.value.id].marker
        /\ WrapCount(heap[binding.value.id].push) >= 1) =>
       ~pollActive']_vars

\* C16: a second run of initialize wraps no collection again (the push of a
\* collection that has an interceptor is left as it is) and posts no
\* PRE_HOOK_SNAPSHOT; after it every push on the bound collection posts
\* exactly one PUSH_INTERCEPTED and every assignment of an array to the
\* name leaves that array bound, marked and wrapped.
C16_InitializeIdempotent ==
  [][/\ Reinitialize =>
          /\ \A a \in DOMAIN heap :
               WrapCount(heap[a].push) >= 1 => heap'[a].push = heap[a].push
          /\ CountType(NewMsgs, "PRE_HOOK_SNAPSHOT") = 0
     /\ \A a \in Known, args \in PushArgs :
          (PagePush(a, args) /\ phase = "rerun" /\ binding.value = ArrayRef(a)) =>
             CountType(NewMsgs, "PUSH_INTERCEPTED") = 1
     /\ \A v \in Assignable :
          (PageAssign(v) /\ phase = "rerun" /\ IsArray(v)) =>
             /\ binding'.value = v
             /\ heap'[v.id].marker
             /\ WrapCount(heap'[v.id].push) = 1]_vars

\* ------------------------------------------------------------ relay claims
\* Sessions registered for tab t: ports that sent INIT for t and whose
\* disconnect the relay has not handled
Registered(t) == {p \in Ports : portTab[p] = t /\ portState[p] \in {"open", "dropped"}}

NewAttempts == SubSeq(attempts', Len(attempts) + 1, Len(attempts'))

AttemptsOf(log, n, p) == SelectSeq(log, LAMBDA x : x.ev = n /\ x.port = p)

\* C17: every engine event a content script sends from a tab is answered
\* with sendResponse exactly once, however many sessions are registered
\* for the tab and whether or not a postMessage threw.
C17_AlwaysAcknowledged ==
  [][\A t \in Tabs, type \in EngineTypes :
       Ingest(t, type) => acks' = Append(acks, [ev |-> ingested + 1, tab |-> t])]_vars

\* C17 witness: an event acknowledged with no session registered and an
\* event acknowledged after two delivery attempts, one of which failed.
C17_Witness ==
  \E i, j \in 1..Len(acks) :
    /\ \A k \in 1..Len(attempts) : attempts[k].ev # acks[i].ev
    /\ \E k, l \in 1..Len(attempts) :
         /\ attempts[k].ev = acks[j].ev /\ attempts[l].ev = acks[j].ev
         /\ ~attempts[k].ok /\ attempts[l].ok

\* C18: when postMessage to one registered session throws during the
\* fan-out of an event, every other session registered for the tab still
\* gets exactly one delivery attempt for that event and the sender is still
\* acknowledged.
C18_FailureDoesNotStopFanOut ==
  [][\A t \in Tabs, type \in EngineTypes :
       (Ingest(t, type) /\ \E p \in Registered(t) : PostThrows(portState, p)) =>
          /\ \A q \in Registered(t) : Len(AttemptsOf(NewAttempts, ingested + 1, q)) = 1
          /\ \A q \in Registered(t) :
               ~PostThrows(portState, q) => AttemptsOf(NewAttempts, ingested + 1, q)[1].ok
          /\ Len(acks') = Len(acks) + 1]_vars

\* C18 witness: in one fan-out the first attempt failed, a later attempt
\* to another session succeeded, and the event was acknowledged.
C18_Witness ==
  \E k, l \in 1..Len(attempts) :
    /\ k < l
    /\ attempts[k].ev = attempts[l].ev
    /\ ~attempts[k].ok
    /\ attempts[l].ok
    /\ \E i \in 1..Len(acks) : acks[i].ev = attempts[k].ev

\* C19: an event sent from tab t gets one delivery attempt for each session
\* registered for t at that moment and no other attempt: none twice, none
\* to a session registered for another tab, none to a session that was
\* unregistered; the attempt succeeds for every session whose port is open.
C19_ExactlyTheRegistered ==
  [][\A t \in Tabs, type \in EngineTypes :
       Ingest(t, type) =>
          /\ Len(NewAttempts) = Cardinality(Registered(t))
          /\ \A p \in Registered(t) : Len(AttemptsOf(NewAttempts, ingested + 1, p)) = 1
          /\ \A i \in 1..Len(NewAttempts) :
               NewAttempts[i].ok = (portState[NewAttempts[i].port] = "open")]_vars

\* C19 witness: the first event went to two sessions of one tab; one of
\* them was unregistered, and the second event, from the same tab, went to
\* the remaining one only.
C19_Witness ==
  /\ Len(acks) = 2
  /\ acks[1].tab = acks[2].tab
  /\ \E p, q \in Ports :
       /\ p # q
       /\ portState[q] = "closed"
       /\ SelectSeq(attempts, LAMBDA x : x.ev = acks[1].ev) =
            <<[ev |-> acks[1].ev, port |-> p, ok |-> TRUE], [ev |-> acks[1].ev, port |-> q, ok |-> TRUE]>>
       /\ SelectSeq(attempts, LAMBDA x : x.ev = acks[2].ev) =
            <<[ev |-> acks[2].ev, port |-> p, ok |-> TRUE]>>

\* C20: the relay keeps no event: an event sent from a tab with no session
\* registered causes no delivery attempt, then or later; registering a
\* session causes no delivery attempt; and every delivery attempt carries
\* the event being handled, so a session gets only events sent after it
\* registered.
C20_DroppedNotBuffered ==
  [][/\ \A t \in Tabs, type \in EngineTypes :
          Ingest(t, type) =>
             /\ Registered(t) = {} => attempts' = attempts
             /\ \A i \in 1..Len(NewAttempts) : NewAttempts[i].ev = ingested + 1
     /\ \A p \in Ports, t \in Tabs : PortInit(p, t) => attempts' = attempts
     /\ ingested' = ingested => attempts' = attempts]_vars

\* C20 witness: the first event of a tab was acknowledged with no session
\* registered; a session registered afterwards for that tab has received
\* the second event and not the first.
C20_Witness ==
  /\ Len(acks) = 2
  /\ acks[1].tab = acks[2].tab
  /\ \E p \in Ports :
       /\ portTab[p] = acks[1].tab
       /\ attempts = <<[ev |-> acks[2].ev, port |-> p, ok |-> TRUE]>>

\* C21: in every state of the relay no tab id maps to an empty list of
\* ports, and the Map has no more entries than there are sessions
\* currently registered.
C21_NoEmptyChannel ==
  /\ \A t \in DOMAIN devtoolsConnections : Len(devtoolsConnections[t]) > 0
  /\ Cardinality(DOMAIN devtoolsConnections)
       <= Cardinality({p \in Ports : \E t \in Tabs : p \in Registered(t)})

\* C21 witness: the last session of one tab was unregistered and the entry
\* of that tab is gone, while another tab still has its entry.
C21_Witness ==
  \E p, q \in Ports :
    /\ portState[p] = "closed"
    /\ portTab[p] \notin DOMAIN devtoolsConnections
    /\ portState[q] = "open"
    /\ portTab[q] \in DOMAIN devtoolsConnections

ViewerRegistered ==
  /\ backgroundPageConnection # 0
  /\ portState[backgroundPageConnection] = "open"
  /\ backgroundPageConnection \in Registered(ViewerTab)

\* C23: after the transport of the viewer's session drops, the viewer is
\* eventually registered for the same tab under another, new session; and
\* every observation of that tab the relay ingests while the viewer is
\* registered is delivered to the viewer's session
C23_Reregisters ==
  \A p \in Ports :
    (disconnectEvent /\ backgroundPageConnection = p)
      ~> (ViewerRegistered /\ backgroundPageConnection # p
            /\ portState[p] = "closed")

C23_DeliveredAfter ==
  [][\A type \in EngineTypes :
       (Ingest(ViewerTab, type) /\ ViewerRegistered)
         => \E i \in 1..Len(NewAttempts) :
              /\ NewAttempts[i].port = backgroundPageConnection
              /\ NewAttempts[i].ev = ingested'
              /\ NewAttempts[i].ok]_vars

C23_ReregistersAndReceives == C23_Reregisters /\ C23_DeliveredAfter

C23_Witness ==
  /\ ViewerRegistered
  /\ \E p \in Ports : p # backgroundPageConnection /\ portState[p] = "closed"
  /\ \E i \in 1..Len(attempts) :
       attempts[i].port = backgroundPageConnection /\ attempts[i].ok

\* ------------------------------------------------------- classifier claims
\* The lines parseStackTrace scans: from the third line on
ScannedFrames(stack) == {i \in 3..Len(stack) : Match(stack[i])}

Ordinary(stack) == {i \in ScannedFrames(stack) : ~IsExtension(stack[i].file)}

Least(S) == CHOOSE i \in S : \A j \in S : i <= j

Returned == stackInfo.kind # "pending"

SameFrame(rec, line) ==
  rec.file = line.file /\ rec.line = line.line /\ rec.column = line.column

\* C25: after a push called directly by ordinary page code, the origin in
\* the observation is the frame of that direct caller.
C25_DirectCallerRecorded ==
  (Returned /\ callChain # <<>> /\ ~IsExtension(callChain[1].file))
    => (stackInfo.kind = "origin" /\ SameFrame(stackInfo, callChain[1]))

\* C26: the primary origin parseStackTrace returns is the first ordinary
\* frame among the scanned lines; only when there is none is it the first
\* instrumentation frame.
C26_PrimaryOrigin ==
  (Returned /\ ScannedFrames(stackText) # {} /\ stackText # <<EmptyLine>>)
    => LET primary == IF Ordinary(stackText) # {}
                        THEN Least(Ordinary(stackText))
                        ELSE Least(ScannedFrames(stackText))
       IN /\ stackInfo.kind = "origin"
          /\ SameFrame(stackInfo, stackText[primary])
          /\ stackInfo.stackLineIndex = primary - 1
          /\ (Ordinary(stackText) # {} => ~IsExtension(stackInfo.file))

C26_Witness ==
  /\ Returned
  /\ Ordinary(stackText) # {}
  /\ Least(ScannedFrames(stackText)) < Least(Ordinary(stackText))
  /\ ~IsExtension(stackInfo.file)

\* C27: immediateCaller is the first parseable scanned frame when that frame
\* is not the primary origin, and null when it is the primary origin, the
\* fallback to an instrumentation frame included.
C27_ViaIntermediate ==
  (Returned /\ ScannedFrames(stackText) # {} /\ stackText # <<EmptyLine>>)
    => LET first == Least(ScannedFrames(stackText))
       IN IF first - 1 # stackInfo.stackLineIndex
            THEN /\ stackInfo.immediateCaller.kind = "frame"
                 /\ SameFrame(stackInfo.immediateCaller, stackText[first])
            ELSE stackInfo.immediateCaller.kind = "null"

\* C28: parseStackTrace does not throw, whatever the text: the empty string
\* and texts without a frame-shaped line included.
C28_NeverThrows ==
  Returned => stackInfo.kind \in {"null", "origin"}

C28_Witness ==
  /\ Returned
  /\ callChain = <<>>
  /\ \A i \in 1..Len(stackText) : ~Match(stackText[i])
  /\ Len(stackText) = MaxLines

\* C29: for every text with no parseable frame among the scanned lines, the
\* empty string included, parseStackTrace returns the record with file
\* "unknown", line 0, column 0, hasExtensionFrames false and the text itself.
IsUnknownRecord ==
  /\ stackInfo.kind = "origin"
  /\ stackInfo.file = File("", "unknown")
  /\ stackInfo.line = 0
  /\ stackInfo.column = 0
  /\ stackInfo.hasExtensionFrames = FALSE
  /\ stackInfo.fullStack = stackText

C29_UnknownForNoFrames ==
  (Returned /\ ScannedFrames(stackText) = {}) => IsUnknownRecord

\* C29 as amended: the same for every text but the empty string, for which
\* parseStackTrace returns null.
C29_UnknownUnlessEmpty ==
  (Returned /\ ScannedFrames(stackText) = {})
    => IF stackText = <<EmptyLine>> THEN stackInfo.kind = "null"
                                    ELSE IsUnknownRecord

C29_Witness ==
  /\ Returned
  /\ IsUnknownRecord
  /\ Len(stackText) >= 3
  /\ \E i \in 1..2 : Match(stackText[i])

\* C30: hasExtensionFrames of a returned record is true exactly when one of
\* the parseable frames from the third line up to and including the primary
\* origin is an instrumentation frame.
C30_FlagExact ==
  (Returned /\ stackInfo.kind = "origin")
    => (stackInfo.hasExtensionFrames
          <=> \E i \in ScannedFrames(stackText) :
                /\ i - 1 <= stackInfo.stackLineIndex
                /\ IsExtension(stackText[i].file))

C30_Witness ==
  /\ Returned
  /\ stackInfo.kind = "origin"
  /\ ~stackInfo.hasExtensionFrames
  /\ \E i \in ScannedFrames(stackText) :
       i - 1 > stackInfo.stackLineIndex /\ IsExtension(stackText[i].file)

\* ------------------------------------------------------ event order claims
IndicesOf(msgs, type, a) ==
  {i \in 1..Len(msgs) : msgs[i].type = type /\ msgs[i].arr = a}

\* C31: order of the engine's events.  Whenever a wrapped push runs the
\* original push, its PUSH_INTERCEPTED was posted first, in the same step
\* and with nothing else of the page changed in between; no PUSH_INTERCEPTED
\* of a collection is posted before a PRE_HOOK_SNAPSHOT of that collection;
\* and in the messages of initialize every PRE_HOOK_SNAPSHOT comes before
\* DEBUGGER_INITIALIZED, which is the last one.
C31_PushOrder ==
  [][\A a \in Known, args \in PushArgs :
       (PagePush(a, args) /\ Head(heap[a].push) = "wrap" /\ ~Pushed(a, args).threw) =>
          /\ NewMsgs # <<>>
          /\ NewMsgs[1] = PushMsg(a, args)
          /\ heap'[a].entries = CallPush(Tail(heap[a].push), a, heap[a].entries, args).entries
          /\ binding' = binding
          /\ \A b \in DOMAIN heap \ {a} : heap'[b] = heap[b]]_vars

C31_SnapshotFirst ==
  \A a \in DOMAIN heap :
    \A i \in IndicesOf(posted, "PRE_HOOK_SNAPSHOT", a) :
      \A j \in IndicesOf(posted, "PUSH_INTERCEPTED", a) : i < j

C31_InitializedLast ==
  [][InitializeStep =>
       \A i, j \in 1..Len(NewMsgs) :
         /\ (NewMsgs[i].type = "PRE_HOOK_SNAPSHOT"
               /\ NewMsgs[j].type = "DEBUGGER_INITIALIZED") => i < j
         /\ NewMsgs[j].type = "DEBUGGER_INITIALIZED" => j = Len(NewMsgs)]_vars

C31_EventOrder == C31_PushOrder /\ []C31_SnapshotFirst /\ C31_InitializedLast

\* C32: the PUSH_INTERCEPTED of a wrapped push carries one element per
\* argument, in argument order: the structural copy of the argument, or its
\* string form when it cannot be copied, whatever the other arguments are.
C32_PayloadPerArgument ==
  [][\A a \in Known, args \in PushArgs :
       (PagePush(a, args) /\ Head(heap[a].push) = "wrap") =>
          /\ NewMsgs # <<>>
          /\ NewMsgs[1].type = "PUSH_INTERCEPTED"
          /\ NewMsgs[1].arr = a
          /\ Len(NewMsgs[1].payload) = Len(args)
          /\ \A i \in 1..Len(args) :
               NewMsgs[1].payload[i] = (IF args[i] = "obj" THEN "obj" ELSE StringOf(args[i]))]_vars

\* The page of the scenario: dataLayer = [{event: "existing"}], an ordinary
\* array with one entry, is what the script finds at the name
ExistingEntry ==
  /\ DOMAIN heap = {1}
  /\ binding.value = ArrayRef(1)
  /\ heap[1].kind = "plain"
  /\ heap[1].entries = <<"obj">>

\* C33: in that scenario initialize posts exactly one PRE_HOOK_SNAPSHOT,
\* with the copy of the one entry, and then the Initialized signal; a push
\* of one object on the collection initialize wrapped then posts exactly one
\* PUSH_INTERCEPTED whose arguments list is the copy of that object; and no
\* second snapshot of the collection is ever posted.
C33_ExistingThenPush ==
  /\ [][(InitializeStep /\ ExistingEntry) =>
          NewMsgs = <<SnapshotMsg(1, <<"obj">>), InitializedMsg>>]_vars
  /\ [][(/\ initPath \in {"wrapped", "degraded"}
         /\ posted # <<>>
         /\ posted[1] = SnapshotMsg(1, <<"obj">>)
         /\ heap[1].push = <<"wrap", "native">>
         /\ PagePush(1, <<"obj">>)) =>
          NewMsgs = <<[type |-> "PUSH_INTERCEPTED", arr |-> 1, payload |-> <<"obj">>]>>]_vars
  /\ []((phase = "run" /\ posted # <<>> /\ posted[1] = SnapshotMsg(1, <<"obj">>)
           /\ heap[1].kind = "plain")
          => Len(SnapshotsOf(posted, 1)) = 1)

\* C33 witness: the three messages of the scenario, and the pushed object
\* appended after the existing entry
C33_Witness ==
  /\ posted = <<SnapshotMsg(1, <<"obj">>), InitializedMsg, PushMsg(1, <<"obj">>)>>
  /\ heap[1].entries = <<"obj", "obj">>
  /\ binding.kind = "guard"


\* --------------------------------------------------- content script steps
\* The message event number n of the window, with the type of its data
WindowEvent(n, type) == [n |-> n, type |-> type]

\* content-script.js 107-111: the three types the relay listener forwards
IsEngineType(type) == type \in EngineTypes

\* initialize(), lines 155-166: nothing is done in an invalidated context,
\* otherwise chrome.storage.sync.get is awaited
CsInitialize ==
  /\ csPc = "start"
  /\ csPc' = IF csContext THEN "await" ELSE "done"
  /\ UNCHANGED <<extensionEnabled, csContext, relayListener, scriptInjected,
                 engineRan, windowEvents, emitted, seen, sent>>
  /\ UNCHANGED <<engineVars, relayVars, pipeVars, viewerVars, classVars>>
  /\ UNCHANGED logVars

\* setupMessageRelay, lines 97-150: the listener is added to the window
SetupMessageRelay_Skipped == relayListener' = relayListener

SetupMessageRelay == relayListener' = TRUE

\* injectPageScript, lines 66-90: the script element is appended in a
\* valid context
InjectPageScript == scriptInjected' = csContext

\* initialize(), lines 166-189, after the await: storage.get rejects in an
\* invalidated context (caught, line 183); a false flag returns; otherwise
\* the listener is added and then the engine script is injected
CsResume ==
  /\ csPc = "await"
  /\ csPc' = "done"
  /\ IF csContext /\ extensionEnabled
       THEN SetupMessageRelay /\ InjectPageScript
       ELSE UNCHANGED <<relayListener, scriptInjected>>
  /\ UNCHANGED <<extensionEnabled, csContext, engineRan, windowEvents, emitted,
                 seen, sent>>
  /\ UNCHANGED <<engineVars, relayVars, pipeVars, viewerVars, classVars>>
  /\ UNCHANGED logVars

\* The extension is reloaded or removed: chrome.runtime.id is gone
CsInvalidate ==
  /\ csContext
  /\ csContext' = FALSE
  /\ UNCHANGED <<extensionEnabled, csPc, relayListener, scriptInjected,
                 engineRan, windowEvents, emitted, seen, sent>>
  /\ UNCHANGED <<engineVars, relayVars, pipeVars, viewerVars, classVars>>
  /\ UNCHANGED logVars

\* window.postMessage(payload, '*'): the message event is queued
PostToWindow(types) ==
  LET new == [i \in 1..Len(types) |-> WindowEvent(Len(emitted) + i, types[i])]
  IN  /\ emitted' = emitted \o new
      /\ windowEvents' = windowEvents \o new

\* What the initialization block of page-script.js, lines 272-287, posts:
\* a snapshot when the collection had entries, then the signal
StartupPosts == {<<"DEBUGGER_INITIALIZED">>,
                 <<"PRE_HOOK_SNAPSHOT", "DEBUGGER_INITIALIZED">>}

\* The injected script element has loaded: page-script.js runs
ScriptLoad ==
  /\ scriptInjected
  /\ ~engineRan
  /\ engineRan' = TRUE
  /\ \E types \in StartupPosts : PostToWindow(types)
  /\ UNCHANGED <<extensionEnabled, csPc, csContext, relayListener,
                 scriptInjected, seen, sent>>
  /\ UNCHANGED <<engineVars, relayVars, pipeVars, viewerVars, classVars>>
  /\ UNCHANGED logVars

\* The page calls the wrapped push: createPushInterceptor, line 153
EnginePush ==
  /\ engineRan
  /\ Len(emitted) < MaxPushes + 2
  /\ PostToWindow(<<"PUSH_INTERCEPTED">>)
  /\ UNCHANGED <<extensionEnabled, csPc, csContext, relayListener,
                 scriptInjected, engineRan, seen, sent>>
  /\ UNCHANGED <<engineVars, relayVars, pipeVars, viewerVars, classVars>>
  /\ UNCHANGED logVars

\* The page posts a message of its own to the window
PagePost ==
  /\ Len(emitted) < MaxPushes + 2
  /\ PostToWindow(<<"OTHER">>)
  /\ UNCHANGED <<extensionEnabled, csPc, csContext, relayListener,
                 scriptInjected, engineRan, seen, sent>>
  /\ UNCHANGED <<engineVars, relayVars, pipeVars, viewerVars, classVars>>
  /\ UNCHANGED logVars

\* The oldest message event is dispatched to the listeners the window has
\* at that moment: the relay listener, lines 98-149, forwards the three
\* engine types while the context is valid
WindowDispatch ==
  /\ windowEvents # <<>>
  /\ windowEvents' = Tail(windowEvents)
  /\ seen' = IF relayListener THEN Append(seen, Head(windowEvents)) ELSE seen
  /\ sent' = IF relayListener /\ IsEngineType(Head(windowEvents).type) /\ csContext
               THEN Append(sent, Head(windowEvents))
               ELSE sent
  /\ UNCHANGED <<extensionEnabled, csPc, csContext, relayListener,
                 scriptInjected, engineRan, emitted>>
  /\ UNCHANGED <<engineVars, relayVars, pipeVars, viewerVars, classVars>>
  /\ UNCHANGED logVars

\* One frame: the stored flag is either value when the content script starts
ContentInit ==
  /\ heap = <<>>
  /\ binding = [kind |-> "data", value |-> NonArray("undefined")]
  /\ everBound = {}
  /\ phase = "pre"
  /\ pollActive = FALSE
  /\ posted = <<>>
  /\ initPath = "none"
  /\ steps = 0
  /\ RelayStart
  /\ PipelineStart
  /\ ViewerStart
  /\ ClassifierStart
  /\ extensionEnabled \in BOOLEAN
  /\ ContentIdle
  /\ LogStart

ContentNext ==
  \/ CsInitialize
  \/ CsResume
  \/ CsInvalidate
  \/ ScriptLoad
  \/ EnginePush
  \/ PagePost
  \/ WindowDispatch

ContentSpec == ContentInit /\ [][ContentNext]_vars

\* The engine events posted to the window so far
EngineEvents == {i \in 1..Len(emitted) : IsEngineType(emitted[i].type)}

InSeq(x, q) == \E i \in 1..Len(q) : q[i] = x

\* C34: the relay listener is added before the engine is injected, so every
\* engine event is either still queued on the window or was given to the
\* listener; with the enable flag false there is no listener, no engine
\* script and nothing is forwarded
C34_ListenerBeforeEngine ==
  /\ \A i \in EngineEvents :
        InSeq(emitted[i], windowEvents) \/ InSeq(emitted[i], seen)
  /\ scriptInjected => relayListener
  /\ ~extensionEnabled =>
        ~relayListener /\ ~scriptInjected /\ ~engineRan /\ sent = <<>>

C34_Witness ==
  /\ extensionEnabled
  /\ engineRan
  /\ windowEvents = <<>>
  /\ Len(seen) >= 3
  /\ \E i \in 1..Len(seen) : seen[i].type = "PUSH_INTERCEPTED"
  /\ \A i \in EngineEvents : InSeq(emitted[i], sent)


\* ------------------------------------------------------- panel log steps
\* One entry of the panel's log: observation n, reported from the given URL
LogEntry(n, url) == [n |-> n, url |-> url]

\* checkUrlChange, devtools-panel.js 874-891, as the values it leaves in
\* logs and currentUrl
CheckUrlChange(ls, cur, persist, newUrl) ==
  IF newUrl = "" THEN [logs |-> ls, currentUrl |-> cur]
  ELSE IF cur = "" THEN [logs |-> ls, currentUrl |-> newUrl]
  ELSE IF cur # newUrl
         THEN [logs |-> IF persist THEN ls ELSE <<>>, currentUrl |-> newUrl]
         ELSE [logs |-> ls, currentUrl |-> cur]

\* addLog, lines 908-926: checkUrlChange(url), then logs.push(log)
AddLog(n, url) ==
  LET c == CheckUrlChange(logs, currentUrl, persistData, url) IN
    /\ logs' = Append(c.logs, LogEntry(n, IF url # "" THEN url ELSE c.currentUrl))
    /\ currentUrl' = c.currentUrl

\* window.location.href of the frame whose content script sent the message
\* (content-script.js 126-131)
UrlOf(f) == IF f = "top" THEN pageUrl ELSE FrameUrl

\* The onMessage listener of the panel's port, lines 1026-1033, is given an
\* observation the content script of frame f sent: a push or a snapshot is
\* logged, DEBUGGER_INITIALIZED is not
PanelOnMessage(f, type) ==
  /\ backgroundPageConnection # 0
  /\ portState[backgroundPageConnection] = "open"
  /\ backgroundPageConnection \in {q \in Ports : portTab[q] = ViewerTab}
  /\ received < MaxPushes
  /\ received' = received + 1
  /\ IF type \in {"PUSH_INTERCEPTED", "PRE_HOOK_SNAPSHOT"}
       THEN AddLog(received + 1, UrlOf(f))
       ELSE UNCHANGED <<logs, currentUrl>>
  /\ UNCHANGED <<persistData, pageUrl>>
  /\ UNCHANGED <<engineVars, relayVars, pipeVars, viewerVars, classVars>>
  /\ UNCHANGED contentVars

\* clearLogs, lines 931-943: the Clear button
ClearLogs ==
  /\ logs' = <<>>
  /\ currentUrl' = ""
  /\ UNCHANGED <<persistData, pageUrl, received>>
  /\ UNCHANGED <<engineVars, relayVars, pipeVars, viewerVars, classVars>>
  /\ UNCHANGED contentVars

\* handlePersistChange, lines 1132-1139: the persist checkbox is toggled
HandlePersistChange ==
  /\ persistData' = ~persistData
  /\ UNCHANGED <<logs, currentUrl, pageUrl, received>>
  /\ UNCHANGED <<engineVars, relayVars, pipeVars, viewerVars, classVars>>
  /\ UNCHANGED contentVars

\* The panel's initialization, lines 1173-1180, has added the onNavigated
\* listener and called setupMessageListener
PanelIsOpen == \E q \in Ports : portState[q] # "none"

\* The inspected tab navigates to url and the onNavigated listener, lines
\* 1064-1092, runs: without persist the log is emptied; a connection the
\* panel holds is disconnected, which runs the relay's onDisconnect
\* listener later and, being the panel's own call, not the panel's; with no
\* connection setupMessageListener is called
Navigate_AlwaysConnect(url) ==
  /\ PanelIsOpen
  /\ pageUrl' = url
  /\ IF persistData THEN UNCHANGED <<logs, currentUrl>>
                    ELSE logs' = <<>> /\ currentUrl' = url
  /\ \E p \in Ports : FreshPort(p) /\ SetupMessageListener(p, pendingTimers)
  /\ UNCHANGED <<disconnectEvent, persistData, received>>
  /\ UNCHANGED <<devtoolsConnections, portTab, ingested, attempts, acks>>
  /\ UNCHANGED <<engineVars, pipeVars, classVars, contentVars>>

Navigate(url) ==
  /\ PanelIsOpen
  /\ pageUrl' = url
  /\ IF persistData THEN UNCHANGED <<logs, currentUrl>>
                    ELSE logs' = <<>> /\ currentUrl' = url
  /\ IF backgroundPageConnection # 0
       THEN /\ portState' = [portState EXCEPT ![backgroundPageConnection] =
                               IF @ = "open" THEN "dropped" ELSE @]
            /\ UNCHANGED <<backgroundPageConnection, reconnectTimeout,
                           pendingTimers>>
       ELSE \E p \in Ports : FreshPort(p) /\ SetupMessageListener(p, pendingTimers)
  /\ UNCHANGED <<disconnectEvent, persistData, received>>
  /\ UNCHANGED <<devtoolsConnections, portTab, ingested, attempts, acks>>
  /\ UNCHANGED <<engineVars, pipeVars, classVars, contentVars>>

\* One panel, the relay, and a tab that navigates
NavNext ==
  \/ ViewerNext
  \/ \E p \in Ports : PortDisconnect(p)
  \/ \E url \in PageUrls : Navigate(url)

NavSpec == ViewerInitial /\ [][NavNext]_vars

\* Listeners that are due run, timers fire and posted messages arrive
NavLiveSpec ==
  /\ NavSpec
  /\ WF_vars(ViewerOnDisconnect)
  /\ WF_vars(ReconnectTimer)
  /\ WF_vars(ViewerInit)
  /\ \A p \in Ports : WF_vars(PortDisconnect(p))

\* One connected panel and its log
LogNext ==
  \/ PanelOpen
  \/ ViewerInit
  \/ \E f \in Frames, type \in EngineTypes : PanelOnMessage(f, type)
  \/ ClearLogs
  \/ HandlePersistChange
  \/ \E url \in PageUrls : Navigate(url)

LogSpec == ViewerInitial /\ [][LogNext]_vars

\* The panel called disconnect() on the port it still holds
SelfDisconnected ==
  /\ backgroundPageConnection # 0
  /\ portState[backgroundPageConnection] # "open"
  /\ ~disconnectEvent

\* C35: when the tab navigates while the viewer holds an open connection,
\* the viewer disconnects and its disconnect handler becomes due; the viewer
\* is eventually registered again under a new connection
C35_HandlerDue ==
  [][\A url \in PageUrls :
       (Navigate(url) /\ backgroundPageConnection # 0
          /\ portState[backgroundPageConnection] = "open")
         => disconnectEvent']_vars

C35_RegisteredAgain ==
  \A p \in Ports :
    (SelfDisconnected /\ backgroundPageConnection = p)
      ~> (ViewerRegistered /\ backgroundPageConnection # p)

C35_ReconnectsAfterNavigation == C35_HandlerDue /\ C35_RegisteredAgain


\* ------------------------------------------------- relay, any INIT sequence
\* Ports held by the Map, counted with repetition
Entries(conns) ==
  LET RECURSIVE Sum(_)
      Sum(ts) == IF ts = {} THEN 0
                 ELSE LET t == CHOOSE x \in ts : TRUE IN
                      Len(conns[t]) + Sum(ts \ {t})
  IN  Sum(DOMAIN conns)

\* A port posts a further INIT message, naming any tab: messageListener,
\* lines 21-31, sets the closure's tabId and pushes the port once more
PortInitAgain(p, t) ==
  /\ portState[p] \in {"open", "dropped"}
  /\ portTab[p] # NoTab
  /\ Entries(devtoolsConnections) <= NumPorts
  /\ portTab' = [portTab EXCEPT ![p] = t]
  /\ devtoolsConnections' = OnInit(devtoolsConnections, p, t)
  /\ attempts' = attempts \o InitDeliveries(portState, p, ingested)
  /\ UNCHANGED <<portState, ingested, acks>>
  /\ UNCHANGED engineVars
  /\ UNCHANGED pipeVars
  /\ UNCHANGED viewerVars
  /\ UNCHANGED classVars
  /\ UNCHANGED <<contentVars, logVars>>

\* The relay with ports that post any number of INIT messages
RelayAnyNext ==
  \/ RelayNext
  \/ \E p \in Ports, t \in Tabs : PortInitAgain(p, t)

RelayAnySpec == RelayInit /\ [][RelayAnyNext]_vars

\* How often port p stands in the channel of tab t
Occurrences(p, t) ==
  IF t \in DOMAIN devtoolsConnections
    THEN Cardinality({i \in 1..Len(devtoolsConnections[t]) :
                        devtoolsConnections[t][i] = p})
    ELSE 0

\* C36: a port stands at most once in at most one channel, and a port whose
\* onDisconnect listener has run stands in no channel, whatever INIT
\* messages it posted
C36_OncePerPortAndGone ==
  \A p \in Ports :
    /\ \A t \in Tabs : Occurrences(p, t) <= 1
    /\ \A t, u \in Tabs : (Occurrences(p, t) > 0 /\ Occurrences(p, u) > 0) => t = u
    /\ portState[p] = "closed" => \A t \in Tabs : Occurrences(p, t) = 0


\* The messages of observation n that reached a port of the panel
Receipts(n) == {i \in 1..Len(attempts) : attempts[i].ev = n /\ attempts[i].ok}

\* C37: however disconnect events, timer firings and navigations interleave,
\* the panel has at most one open port and at most one pending reconnect
\* timer, stands at most once in the channel of its tab, and is given no
\* observation twice
C37_OneConnectionOneTimer ==
  /\ Cardinality({p \in Ports : portState[p] = "open"}) <= 1
  /\ pendingTimers <= 1
  /\ reconnectTimeout <=> pendingTimers = 1
  /\ Entries(devtoolsConnections) <= 1
  /\ \A n \in 1..ingested : Cardinality(Receipts(n)) <= 1

C37_Witness ==
  /\ ViewerRegistered
  /\ backgroundPageConnection = 2
  /\ portState[1] = "closed"
  /\ pageUrl # "https://shop.example/"
  /\ Receipts(1) # {}
  /\ Receipts(2) # {}
  /\ attempts[1].port # attempts[2].port


\* The steps of LogNext other than the arrival of an observation
LogRemovalAllowed ==
  \/ ClearLogs
  \/ \E url \in PageUrls : Navigate(url)

\* C40: with persist off, an entry of the log is removed only by Clear or by
\* a navigation of the inspected page; an observation that arrives from any
\* frame of the tab leaves the earlier entries in place
C40_OnlyClearOrNavigationRemoves ==
  [][(~persistData /\ ~LogRemovalAllowed)
       => /\ Len(logs') >= Len(logs)
          /\ SubSeq(logs', 1, Len(logs)) = logs]_vars


\* C39: with the accessor installed, the value read from the name is not an
\* array, or it is an array that carries the marker and whose push is the
\* interceptor
C39_GuardYieldsWrapped ==
  (binding.kind = "guard" /\ IsArray(binding.value)) =>
     /\ heap[binding.value.id].marker
     /\ WrapCount(heap[binding.value.id].push) >= 1


\* ------------------------------------------- pages that keep the wrapper
\* Page code replaces the push of an array the engine has not wrapped
PageOverwriteUnwrapped(a) ==
  /\ WrapCount(heap[a].push) = 0
  /\ PageOverwritePush(a)

\* The page of Next, except that no code overwrites the push of a wrapped
\* collection
KeepWrapNext ==
  \/ Initialize
  \/ \E kind \in ArrayKinds : \E es \in CreateEntries(kind) : PageCreate(kind, es)
  \/ \E v \in Assignable : PageAssign(v)
  \/ \E v \in Assignable, k \in {"data", "locked"} : PageRedefine(v, k)
  \/ \E a \in Known, args \in PushArgs : PagePush(a, args)
  \/ \E a \in Known : PageOverwriteUnwrapped(a)
  \/ PollTick
  \/ PollStop

KeepWrapSpec == Init /\ [][KeepWrapNext]_vars

\* The entries reported for array a by the messages of the given types, in
\* the order of the messages
RECURSIVE Reports(_, _, _)
Reports(msgs, a, types) ==
  IF msgs = <<>> THEN <<>>
  ELSE (IF Head(msgs).arr = a /\ Head(msgs).type \in types
          THEN Head(msgs).payload ELSE <<>>)
       \o Reports(Tail(msgs), a, types)

\* The reports that stand for entries of a: the snapshots, and the push
\* observations when the push under the interceptor appends its arguments
EntryReports(a) ==
  Reports(posted, a,
          IF StripWraps(heap[a].push) = <<"native">>
            THEN {"PRE_HOOK_SNAPSHOT", "PUSH_INTERCEPTED"}
            ELSE {"PRE_HOOK_SNAPSHOT"})

\* C38: while no code overwrites the push of a wrapped collection, the
\* entries of a wrapped collection that is bound while the accessor or the
\* poll is active are exactly the reported ones, each once and in order; an
\* array read through the accessor is wrapped; and a poll tick leaves the
\* array at the name wrapped
C38_EntriesOnce ==
  \A a \in DOMAIN heap :
    (/\ binding.value = ArrayRef(a)
     /\ binding.kind = "guard" \/ pollActive
     /\ WrapCount(heap[a].push) >= 1)
      => EntryReports(a) = CopyAll(heap[a].entries)

C38_GuardBindsWrapped ==
  (binding.kind = "guard" /\ IsArray(binding.value)) =>
     WrapCount(heap[binding.value.id].push) >= 1

C38_PollWraps ==
  [][(PollTick /\ IsArray(binding.value)) =>
       WrapCount(heap'[binding.value.id].push) >= 1]_vars

C38_EveryEntryReportedOnce ==
  /\ []C38_EntriesOnce
  /\ []C38_GuardBindsWrapped
  /\ C38_PollWraps

====
